---- MODULE Spec2Model ----
(***************************************************************************)
(* Model of the scenario generation orchestrator (engine/ai_handler.py)   *)
(* and of the consistency validator (engine/validator.py) of the wargame  *)
(* scenario researcher.                                                    *)
(*                                                                         *)
(* A scenario is [terrain_map, frames]; a frame is                        *)
(* [frame_description, unit_positions, validation_errors]; a unit is      *)
(* [unit_id, x, y].  Strings built by f-strings are modelled as tuples of *)
(* their literal part and their interpolated values.                       *)
(***************************************************************************)
EXTENDS Integers, Sequences, FiniteSets, TLC

\* ------------------------------------------------------------------ bounds
\* side of the square terrain grids the generator produces
MapSize == 5
\* number of units in the crowded frame of the generator's candidates
MassUnits == 6

\* ------------------------------------------------------- program constants
OPEN == 0
WATER == 1
URBAN == 2
FOREST == 3
\* validator.py:48, "dist > 3.0"
MaxSpeed == 3
\* a retry budget larger by one
max_retries_more == 3 + 1

\* ai_handler.py:167
max_retries == 3
\* ai_handler.py:195, all_errors[:10]
FeedbackLimit == 10

\* ------------------------------------------------------------ pure helpers
Min(a, b) == IF a < b THEN a ELSE b

Abs(a) == IF a < 0 THEN -a ELSE a

\* Python's list[:n]
Take(seq, n) == SubSeq(seq, 1, Min(n, Len(seq)))

\* the elements of a finite set of integers in increasing order
RECURSIVE Ascending(_)
Ascending(S) ==
    IF S = {} THEN <<>>
    ELSE LET m == CHOOSE a \in S : \A b \in S : a <= b
         IN  <<m>> \o Ascending(S \ {m})

\* ------------------------------------------------------------- validator
map_height(scenario) == Len(scenario.terrain_map)

\* the guard wrongly true: scenario.terrain_map[0] read on every grid
WidthRowRead_always(scenario) == TRUE

\* "if map_height > 0": whether scenario.terrain_map[0] is read
WidthRowRead(scenario) == map_height(scenario) > 0

map_width(scenario) ==
    IF WidthRowRead(scenario) THEN Len(scenario.terrain_map[1]) ELSE 0

\* the uncaught IndexError of reading row 0 of an empty terrain_map
ValidateRaises(scenario) == WidthRowRead(scenario) /\ map_height(scenario) = 0

InBounds(scenario, unit) ==
    /\ 0 <= unit.x /\ unit.x < map_width(scenario)
    /\ 0 <= unit.y /\ unit.y < map_height(scenario)

\* f"Unit {unit.unit_id} out of bounds ({unit.x}, {unit.y})"
OutOfBoundsError(unit) == <<"out of bounds", unit.unit_id, unit.x, unit.y>>

\* f"Unit {unit.unit_id} is in Water at ({unit.x}, {unit.y})"
WaterError(unit) == <<"is in Water at", unit.unit_id, unit.x, unit.y>>

\* scenario.terrain_map[unit.y][unit.x] raises IndexError on a short row
RowHasCell(scenario, unit) == unit.x + 1 <= Len(scenario.terrain_map[unit.y + 1])

TerrainAt(scenario, unit) == scenario.terrain_map[unit.y + 1][unit.x + 1]

\* the cell compared with TerrainType.URBAN instead of TerrainType.WATER
TerrainCheck_urban(scenario, unit) ==
    IF ~InBounds(scenario, unit) THEN <<OutOfBoundsError(unit)>>
    ELSE IF ~RowHasCell(scenario, unit) THEN <<>>
    ELSE IF TerrainAt(scenario, unit) = URBAN THEN <<WaterError(unit)>>
    ELSE <<>>

\* step 1 of the frame loop for one unit: bounds first, then Water; the
\* IndexError of a short row is caught and ignored
TerrainCheck(scenario, unit) ==
    IF ~InBounds(scenario, unit) THEN <<OutOfBoundsError(unit)>>
    ELSE IF ~RowHasCell(scenario, unit) THEN <<>>
    ELSE IF TerrainAt(scenario, unit) = WATER THEN <<WaterError(unit)>>
    ELSE <<>>

\* the loop left with "break" instead of "continue" on an out-of-bounds unit
RECURSIVE TerrainErrors_break(_, _)
TerrainErrors_break(scenario, units) ==
    IF units = <<>> THEN <<>>
    ELSE IF ~InBounds(scenario, Head(units)) THEN <<OutOfBoundsError(Head(units))>>
    ELSE TerrainCheck(scenario, Head(units)) \o TerrainErrors_break(scenario, Tail(units))

RECURSIVE TerrainErrors(_, _)
TerrainErrors(scenario, units) ==
    IF units = <<>> THEN <<>>
    ELSE TerrainCheck(scenario, Head(units)) \o TerrainErrors(scenario, Tail(units))

\* a dict that keeps the first unit of each id
current_units_firstWins(units) ==
    LET first == {i \in 1..Len(units) :
                     \A j \in 1..(i - 1) : units[j].unit_id # units[i].unit_id}
        keys == Ascending(first)
    IN  [k \in 1..Len(keys) |-> units[keys[k]]]

\* {u.unit_id: u for u in frame.unit_positions}: a key keeps the place of
\* its first occurrence and the value of its last one.  The result is the
\* sequence of the dict's values in key order.
current_units(units) ==
    LET first == {i \in 1..Len(units) :
                     \A j \in 1..(i - 1) : units[j].unit_id # units[i].unit_id}
        last(id) == CHOOSE i \in 1..Len(units) :
                     /\ units[i].unit_id = id
                     /\ \A j \in (i + 1)..Len(units) : units[j].unit_id # id
        keys == Ascending(first)
    IN  [k \in 1..Len(keys) |-> units[last(units[keys[k]].unit_id)]]

\* (unit.x - prev.x)**2 + (unit.y - prev.y)**2
DistSq(unit, prev) ==
    (unit.x - prev.x) * (unit.x - prev.x) + (unit.y - prev.y) * (unit.y - prev.y)

\* f"{dist:.2f}" of dist = sqrt(d2), in hundredths: the integer r with
\* r - 1/2 <= 100 * sqrt(d2) < r + 1/2
Hundredths(unit, prev) ==
    LET d2 == DistSq(unit, prev)
        top == 100 * (Abs(unit.x - prev.x) + Abs(unit.y - prev.y)) + 1
    IN  CHOOSE r \in 0..top :
            /\ (2 * r - 1) * (2 * r - 1) <= 40000 * d2
            /\ 40000 * d2 < (2 * r + 1) * (2 * r + 1)

\* f"Unit {unit.unit_id} moved too fast ({dist:.2f} tiles)"
MovedTooFastError(unit, prev) ==
    <<"moved too fast", unit.unit_id, Hundredths(unit, prev)>>

\* math.sqrt(d2) > 3.0  <=>  d2 > 9 for an integer d2
\* "dist >= 3.0" in place of "dist > 3.0"
TooFast_inclusive(unit, prev) == DistSq(unit, prev) >= MaxSpeed * MaxSpeed

TooFast(unit, prev) == DistSq(unit, prev) > MaxSpeed * MaxSpeed

\* step 2 of the frame loop for one entry of current_units
MovementCheck(unit, prev_units) ==
    LET hits == {i \in 1..Len(prev_units) : prev_units[i].unit_id = unit.unit_id}
    IN  IF hits = {} THEN <<>>
        ELSE LET prev == prev_units[CHOOSE i \in hits : TRUE]
             IN  IF TooFast(unit, prev) THEN <<MovedTooFastError(unit, prev)>>
                 ELSE <<>>

RECURSIVE MovementErrors(_, _)
MovementErrors(cur_units, prev_units) ==
    IF cur_units = <<>> THEN <<>>
    ELSE MovementCheck(Head(cur_units), prev_units)
            \o MovementErrors(Tail(cur_units), prev_units)

\* the frame loop without "frame.validation_errors = []"
FrameErrors_noReset(scenario, frame_idx) ==
    LET frame == scenario.frames[frame_idx]
        cur == current_units(frame.unit_positions)
        prev == IF frame_idx > 1
                THEN current_units(scenario.frames[frame_idx - 1].unit_positions)
                ELSE <<>>
    IN  frame.validation_errors
            \o TerrainErrors(scenario, frame.unit_positions)
            \o (IF frame_idx > 1 THEN MovementErrors(cur, prev) ELSE <<>>)

\* the validation_errors the frame loop leaves on frame_idx (1-based here)
FrameErrors(scenario, frame_idx) ==
    LET frame == scenario.frames[frame_idx]
        cur == current_units(frame.unit_positions)
        prev == IF frame_idx > 1
                THEN current_units(scenario.frames[frame_idx - 1].unit_positions)
                ELSE <<>>
    IN  TerrainErrors(scenario, frame.unit_positions)
            \o (IF frame_idx > 1 THEN MovementErrors(cur, prev) ELSE <<>>)

validate_scenario(scenario) ==
    [scenario EXCEPT !.frames =
        [k \in 1..Len(scenario.frames) |->
            [scenario.frames[k] EXCEPT !.validation_errors = FrameErrors(scenario, k)]]]

\* ------------------------------------------------------------ data model
\* models.Unit (x, y are ge=0), models.Frame, models.WargameScenario
Unit(id, x, y) == [unit_id |-> id, x |-> x, y |-> y]

Frame(units, errors) ==
    [frame_description |-> <<"Move">>, unit_positions |-> units,
     validation_errors |-> errors]

WargameScenario(terrain, frames) == [terrain_map |-> terrain, frames |-> frames]

\* scenario.model_dump_json(): the JSON text of every field of the scenario
model_dump_json(scenario) ==
    <<"terrain_map", scenario.terrain_map, "frames", scenario.frames>>

\* ------------------------------------------- what the generator can answer
GridOpen == [y \in 1..MapSize |-> [x \in 1..MapSize |-> OPEN]]

\* a river along the column x = 1
GridRiver == [y \in 1..MapSize |-> [x \in 1..MapSize |-> IF x = 2 THEN WATER ELSE OPEN]]

GenTerrains == {GridOpen, GridRiver}

U1(x, y) == Unit(<<"U", 1>>, x, y)

\* MassUnits units placed on the column just right of the grid
MassFrame == Frame([i \in 1..MassUnits |-> Unit(<<"U", i>>, MapSize, i - 1)], <<>>)

GenFrameLists ==
    { <<Frame(<<U1(0, 0)>>, <<>>), Frame(<<U1(0, 1)>>, <<>>)>>,
      <<Frame(<<U1(0, 0)>>, <<<<"hand-authored">>>>), Frame(<<U1(0, 2)>>, <<>>)>>,
      <<Frame(<<U1(0, 0)>>, <<>>), Frame(<<U1(1, 0)>>, <<>>)>>,
      <<Frame(<<U1(0, 0)>>, <<>>), Frame(<<U1(0, MapSize - 1)>>, <<>>)>>,
      <<Frame(<<U1(0, 0)>>, <<>>), MassFrame, MassFrame>> }

\* the candidates completion.choices[0].message.parsed can be
Candidates == {WargameScenario(t, fs) : t \in GenTerrains, fs \in GenFrameLists}

\* the frame lists a ScenarioExtension can carry
Extensions == GenFrameLists \cup {<<>>}

\* exceptions client.beta.chat.completions.parse can raise: the class, its
\* base classes among those the handlers name, and str(e)
Exc(class, bases, text) == [class |-> class, bases |-> bases, text |-> text]

GeneratorFailures ==
    { Exc("AuthenticationError", {"AuthenticationError", "APIError", "Exception"}, "401"),
      Exc("RateLimitError", {"RateLimitError", "APIError", "Exception"}, "429"),
      Exc("APIConnectionError", {"APIConnectionError", "APIError", "Exception"}, "Connection error."),
      Exc("InternalServerError", {"APIError", "Exception"}, "500"),
      Exc("ValidationError", {"Exception"}, "invalid JSON for WargameScenario") }

\* what search_realtime_intel can return; it never raises
SearchDigests ==
    { "REAL-TIME INTELLIGENCE REPORT", "No real-time data found.",
      "Warning: Could not fetch real-time data" }

\* ------------------------------------------------------------------ state
VARIABLES
    op,             \* the function being executed: "none", "fetch", "continue"
    pc,             \* "idle", "loop" (about to call the generator), "returned", "raised"
    args,           \* the arguments of the call
    fixed_terrain,  \* <<grid>> when the caller holds a terrain grid to pin, else <<>>
    attempt,        \* the loop variable of fetch_scenario
    messages,       \* the conversation sent to the generator
    scenario,       \* fetch_scenario's local: <<>> unbound, <<s>> bound
    gen_calls,      \* calls of client.beta.chat.completions.parse in this call
    search_calls,   \* calls of search_realtime_intel in this call
    gen_log,        \* what the generator answered at each call, in order
    result          \* how the call ended

\* the state of a call of fetch_scenario or continue_scenario
callVars == <<op, pc, args, fixed_terrain, attempt, messages, scenario, gen_calls,
              search_calls, gen_log, result>>

VARIABLES
    val_scenario,   \* the scenario object handed to validate_scenario
    val_runs,       \* calls of validate_scenario on it so far
    val_status      \* "none", or how the last call ended: "ok", "raised"

\* the state of a direct use of the validator
valVars == <<val_scenario, val_runs, val_status>>

VARIABLES
    total_frames_generated,  \* st.session_state.total_frames_generated
    total_scenarios_run,     \* st.session_state.total_scenarios_run
    current_scenario,        \* st.session_state.current_scenario: <<>> is None
    current_frame_index,     \* st.session_state.current_frame_index
    set_calls,               \* calls of set_scenario so far
    set_frames,              \* sum of len(frames) over those calls
    branches,                \* successful branches so far
    last_op,                 \* the last session operation and what it was given
    session_keys,            \* the keys st.session_state holds
    edits                    \* editor edits so far

\* the session state
sessionVars == <<total_frames_generated, total_scenarios_run, current_scenario,
                 current_frame_index, set_calls, set_frames, branches, last_op,
                 session_keys, edits>>

VARIABLES
    uploaded,       \* the document in the file uploader: <<>> is none
    load_result,    \* "none", or how the upload handler ended: "loaded", "invalid"
    saved,          \* the document the download button last wrote: <<>> is none
    view            \* what the last export or analytics call gave back

\* the state of the files and views around the session
fileVars == <<uploaded, load_result, saved, view>>

vars == <<callVars, valVars, sessionVars, fileVars>>

\* no call is running
CallIdle ==
    /\ op = "none"
    /\ pc = "idle"
    /\ args = [api_key |-> "", use_mock |-> FALSE, use_search |-> FALSE,
               current_frame_idx |-> 0, current_scenario |-> <<>>]
    /\ fixed_terrain = <<>>
    /\ attempt = 0
    /\ messages = <<>>
    /\ scenario = <<>>
    /\ gen_calls = 0
    /\ search_calls = 0
    /\ gen_log = <<>>
    /\ result = [status |-> "none", value |-> <<>>, exc |-> <<>>]

\* no file was uploaded or written and no view was computed
FileIdle ==
    /\ uploaded = <<>>
    /\ load_result = "none"
    /\ saved = <<>>
    /\ view = <<>>

\* the validator is not in use
ValIdle ==
    /\ val_scenario = <<>>
    /\ val_runs = 0
    /\ val_status = "none"

Op(name, frames) == [name |-> name, frames |-> frames]

\* the keys initialize_state looks for
SessionKeys ==
    {"total_frames_generated", "total_scenarios_run", "current_scenario",
     "current_frame_index"}

\* what initialize_state gives a key it does not find: None is <<>>
SessionDefaults ==
    [total_frames_generated |-> 0, total_scenarios_run |-> 0,
     current_scenario |-> <<>>, current_frame_index |-> 0]

\* st.session_state of a fresh session: no keys
EmptySession == [k \in {} |-> 0]

\* every key set to its default, the ones st.session_state holds included
initialize_state_resets(session) == SessionDefaults

\* state_manager.initialize_state() on st.session_state: "if key not in
\* st.session_state" for each of the four keys
initialize_state(session) ==
    [k \in DOMAIN session \cup SessionKeys |->
        IF k \in DOMAIN session THEN session[k] ELSE SessionDefaults[k]]

\* the session right after initialize_state on a fresh session
SessionFresh ==
    /\ total_frames_generated = initialize_state(EmptySession).total_frames_generated
    /\ total_scenarios_run = initialize_state(EmptySession).total_scenarios_run
    /\ current_scenario = initialize_state(EmptySession).current_scenario
    /\ current_frame_index = initialize_state(EmptySession).current_frame_index
    /\ set_calls = 0
    /\ set_frames = 0
    /\ branches = 0
    /\ edits = 0
    /\ last_op = Op("initialize_state", <<>>)
    /\ session_keys = DOMAIN initialize_state(EmptySession)

NoResult == [status |-> "none", value |-> <<>>, exc |-> <<>>]

Returned(v) == [status |-> "returned", value |-> <<v>>, exc |-> <<>>]

Raised(e) == [status |-> "raised", value |-> <<>>, exc |-> <<e>>]

ValueError(msg) == [type |-> "ValueError", msg |-> msg]

RuntimeError(msg) == [type |-> "RuntimeError", msg |-> msg]

Args(key, mock, search, idx, cur) ==
    [api_key |-> key, use_mock |-> mock, use_search |-> search,
     current_frame_idx |-> idx, current_scenario |-> cur]

Init ==
    /\ op = "none"
    /\ pc = "idle"
    /\ args = Args("", FALSE, FALSE, 0, <<>>)
    /\ fixed_terrain = <<>>
    /\ attempt = 0
    /\ messages = <<>>
    /\ scenario = <<>>
    /\ gen_calls = 0
    /\ search_calls = 0
    /\ gen_log = <<>>
    /\ result = NoResult
    /\ ValIdle
    /\ SessionFresh
    /\ FileIdle

\* ---------------------------------------------------------- fetch_scenario
\* the label written f"Frame {i}"
FrameLabel_zeroBased(i) == i

\* f"Frame {i+1}: {err}" for the errors of the frame at 0-based index i
FrameLabel(i) == i + 1

ErrorLines(i, errors) == [k \in 1..Len(errors) |-> <<"Frame", FrameLabel(i), errors[k]>>]

RECURSIVE CollectFrom(_, _)
CollectFrom(frames, i) ==
    IF i >= Len(frames) THEN <<>>
    ELSE ErrorLines(i, frames[i + 1].validation_errors) \o CollectFrom(frames, i + 1)

\* the "Collect errors" loop
all_errors(scen) == CollectFrom(scen.frames, 0)

FeedbackHeader ==
    "The generated scenario contains logic/physics violations. Please fix the following errors and regenerate:"

\* header + "\n".join(all_errors[:10])
error_feedback(errors) == <<FeedbackHeader, Take(errors, FeedbackLimit)>>

Message(role, content) == [role |-> role, content |-> content]

\* the context placed in the user instruction
final_context(search, intel) ==
    IF search THEN <<"User Query: ", "topic", "LATEST INTELLIGENCE (Real-Time Search): ", intel>>
    ELSE <<"topic">>

InitialMessages(search, intel) ==
    << Message("system", <<"SYSTEM_PROMPT">>),
       Message("user", <<"Generate a tactical scenario", MapSize, "Balanced",
                         final_context(search, intel)>>) >>

\* the test inverted: "if all_errors"
IsValid_inverted(errors) == errors # <<>>

\* "if not all_errors"
IsValid(errors) == errors = <<>>

\* "if attempt < max_retries"
RetriesRemain(att) == att < max_retries

\* a comparison that no value of range(max_retries + 1) satisfies
LastAttempt_never(att) == att = max_retries + 1

\* "if attempt == max_retries"
LastAttempt(att) == att = max_retries

\* the clauses without "except APIConnectionError" and "except APIError"
ExceptClause_noAPIError(e) ==
    IF "AuthenticationError" \in e.bases THEN "AuthenticationError"
    ELSE IF "RateLimitError" \in e.bases THEN "RateLimitError"
    ELSE "Exception"

\* the clauses without "except AuthenticationError"
ExceptClause_noAuth(e) ==
    IF "RateLimitError" \in e.bases THEN "RateLimitError"
    ELSE IF "APIConnectionError" \in e.bases THEN "APIConnectionError"
    ELSE IF "APIError" \in e.bases THEN "APIError"
    ELSE "Exception"

\* the first except clause of fetch_scenario that matches e
ExceptClause(e) ==
    IF "AuthenticationError" \in e.bases THEN "AuthenticationError"
    ELSE IF "RateLimitError" \in e.bases THEN "RateLimitError"
    ELSE IF "APIConnectionError" \in e.bases THEN "APIConnectionError"
    ELSE IF "APIError" \in e.bases THEN "APIError"
    ELSE "Exception"

\* what that clause raises at attempt att: <<exc>>, or <<>> when it raises
\* nothing and the loop goes on
FetchRaise(e, att) ==
    LET clause == ExceptClause(e)
    IN  IF clause = "AuthenticationError"
          THEN <<ValueError(<<"Invalid OpenAI API Key. Please check your credentials.">>)>>
        ELSE IF clause = "RateLimitError"
          THEN <<RuntimeError(<<"OpenAI API rate limit exceeded. Please try again later.">>)>>
        ELSE IF clause = "APIConnectionError"
          THEN <<RuntimeError(<<"Failed to connect to OpenAI API. Please check your internet connection.">>)>>
        ELSE IF clause = "APIError"
          THEN <<RuntimeError(<<"OpenAI API returned an error: ", e.text>>)>>
        ELSE IF LastAttempt(att)
          THEN <<RuntimeError(<<"An unexpected error occurred during scenario generation: ", e.text>>)>>
        ELSE <<>>

\* the end of a loop iteration that neither returned nor raised: the next
\* value of range(max_retries + 1), or the "return scenario" after the loop
NextIteration(att, scen) ==
    IF att < max_retries
      THEN [pc |-> "loop", attempt |-> att + 1, result |-> NoResult]
    ELSE IF scen = <<>>
      THEN [pc |-> "raised", attempt |-> att,
            result |-> Raised([type |-> "UnboundLocalError", msg |-> <<"scenario">>])]
    ELSE [pc |-> "returned", attempt |-> att, result |-> Returned(scen[1])]

CanCall == pc = "idle"

\* scenario.frames[0].frame_description = "[MOCK MODE] " + ...
MockStamp(data) ==
    [data EXCEPT !.frames[1].frame_description = <<"[MOCK MODE] ">> \o @]

\* use_mock and mock_data.json loads as data
FetchMockLoads(key, search, grid, data) ==
    /\ UNCHANGED <<valVars, sessionVars, fileVars>>
    /\ CanCall
    /\ op' = "fetch"
    /\ args' = Args(key, TRUE, search, 0, <<>>)
    /\ fixed_terrain' = grid
    /\ attempt' = 0 /\ messages' = <<>> /\ scenario' = <<>>
    /\ gen_calls' = 0 /\ search_calls' = 0 /\ gen_log' = <<>>
    /\ IF Len(data.frames) > 0
         THEN /\ pc' = "returned"
              /\ result' = Returned(MockStamp(data))
         ELSE /\ pc' = "raised"
              /\ result' = Raised(RuntimeError(<<"Failed to load mock data: ", "list index out of range">>))

\* use_mock and mock_data.json cannot be opened or parsed
FetchMockFails(key, search, grid) ==
    /\ UNCHANGED <<valVars, sessionVars, fileVars>>
    /\ CanCall
    /\ op' = "fetch"
    /\ args' = Args(key, TRUE, search, 0, <<>>)
    /\ fixed_terrain' = grid
    /\ attempt' = 0 /\ messages' = <<>> /\ scenario' = <<>>
    /\ gen_calls' = 0 /\ search_calls' = 0 /\ gen_log' = <<>>
    /\ pc' = "raised"
    /\ result' = Raised(RuntimeError(<<"Failed to load mock data: ", "No such file">>))

\* the test written "if api_key is None"
KeyMissing_isNone(key) == FALSE

\* "if not api_key"
KeyMissing(key) == key = ""

\* a call with use_mock off: the credential check, then the optional search
\* and the initial messages, up to the head of the retry loop
FetchCall(key, search, grid, intel) ==
    /\ UNCHANGED <<valVars, sessionVars, fileVars>>
    /\ CanCall
    /\ op' = "fetch"
    /\ args' = Args(key, FALSE, search, 0, <<>>)
    /\ fixed_terrain' = grid
    /\ attempt' = 0
    /\ scenario' = <<>>
    /\ gen_calls' = 0
    /\ gen_log' = <<>>
    /\ IF KeyMissing(key)
         THEN /\ pc' = "raised"
              /\ result' = Raised(ValueError(<<"OpenAI API Key is missing.">>))
              /\ messages' = <<>>
              /\ search_calls' = 0
         ELSE /\ pc' = "loop"
              /\ result' = NoResult
              /\ messages' = InitialMessages(search, intel)
              /\ search_calls' = IF search THEN 1 ELSE 0

\* the last attempt raising instead of returning
OnExhausted_raises(s) ==
    [pc |-> "raised", result |-> Raised(RuntimeError(<<"Validation failed">>))]

\* the "else" of the last attempt: "return scenario" with the errors stamped
OnExhausted(s) == [pc |-> "returned", result |-> Returned(s)]

\* one iteration of the loop in which the generator answers candidate c
FetchParsed(c) ==
    /\ UNCHANGED <<valVars, sessionVars, fileVars>>
    /\ op = "fetch" /\ pc = "loop"
    /\ LET s == validate_scenario(c)
           errors == all_errors(s)
           next == NextIteration(attempt, <<s>>)
       IN  /\ gen_calls' = gen_calls + 1
           /\ gen_log' = Append(gen_log, [raised |-> <<>>, parsed |-> <<c>>])
           /\ scenario' = <<s>>
           /\ IF IsValid(errors)
                THEN /\ pc' = "returned"
                     /\ result' = Returned(s)
                     /\ UNCHANGED <<attempt, messages>>
              ELSE IF RetriesRemain(attempt)
                THEN /\ messages' = messages \o
                            << Message("assistant", model_dump_json(s)),
                               Message("user", error_feedback(errors)) >>
                     /\ pc' = next.pc
                     /\ attempt' = next.attempt
                     /\ result' = next.result
              ELSE /\ pc' = OnExhausted(s).pc
                   /\ result' = OnExhausted(s).result
                   /\ UNCHANGED <<attempt, messages>>
    /\ UNCHANGED <<op, args, fixed_terrain, search_calls>>

\* one iteration of the loop in which the generator call raises e
FetchGeneratorRaises(e) ==
    /\ UNCHANGED <<valVars, sessionVars, fileVars>>
    /\ op = "fetch" /\ pc = "loop"
    /\ LET exc == FetchRaise(e, attempt)
           next == NextIteration(attempt, scenario)
       IN  /\ gen_calls' = gen_calls + 1
           /\ gen_log' = Append(gen_log, [raised |-> <<e>>, parsed |-> <<>>])
           /\ IF exc # <<>>
                THEN /\ pc' = "raised"
                     /\ result' = Raised(exc[1])
                     /\ UNCHANGED attempt
                ELSE /\ pc' = next.pc
                     /\ attempt' = next.attempt
                     /\ result' = next.result
    /\ UNCHANGED <<op, args, fixed_terrain, messages, scenario, search_calls>>

\* ------------------------------------------------------- continue_scenario
\* the scenarios a caller can hold: validated candidates
ContinuableScenarios == {validate_scenario(c) : c \in Candidates}

\* the two messages of the continuation request; the user instruction
\* carries the frame number and the units of last_frame
ContinueMessages(cur, idx) ==
    << Message("system", <<"SYSTEM_PROMPT", "IMPORTANT: You are CONTINUING an existing battle.">>),
       Message("user", <<"Mission Update", idx + 1, "Continue the battle",
                         cur.frames[idx + 1].unit_positions>>) >>

\* "except Exception as e: raise RuntimeError(...)"
ContinueRaise(e) == RuntimeError(<<"Error extending scenario: ", e.text>>)

\* the credential check, then the prompt built from frames[current_frame_idx]
ContinueCall(key, cur, idx) ==
    /\ UNCHANGED <<valVars, sessionVars, fileVars>>
    /\ CanCall
    /\ idx < Len(cur.frames)
    /\ op' = "continue"
    /\ args' = Args(key, FALSE, FALSE, idx, <<cur>>)
    /\ attempt' = 0
    /\ scenario' = <<>>
    /\ gen_calls' = 0 /\ search_calls' = 0 /\ gen_log' = <<>>
    /\ IF KeyMissing(key)
         THEN /\ pc' = "raised"
              /\ result' = Raised(ValueError(<<"OpenAI API Key is missing.">>))
              /\ messages' = <<>>
         ELSE /\ pc' = "loop"
              /\ result' = NoResult
              /\ messages' = ContinueMessages(cur, idx)
    /\ UNCHANGED fixed_terrain

\* the new frames validated against, and appended to, the input scenario
ContinueParsed_merges(frames) ==
    /\ UNCHANGED <<valVars, sessionVars, fileVars>>
    /\ op = "continue" /\ pc = "loop"
    /\ gen_calls' = gen_calls + 1
    /\ gen_log' = Append(gen_log, [raised |-> <<>>, parsed |-> <<frames>>])
    /\ pc' = "returned"
    /\ args' = [args EXCEPT !.current_scenario =
                  <<validate_scenario([args.current_scenario[1] EXCEPT
                        !.frames = args.current_scenario[1].frames \o frames])>>]
    /\ result' = Returned(SubSeq(args'.current_scenario[1].frames,
                                 Len(args.current_scenario[1].frames) + 1,
                                 Len(args'.current_scenario[1].frames)))
    /\ UNCHANGED <<op, fixed_terrain, attempt, messages, scenario, search_calls>>

\* the generator answers a ScenarioExtension with these frames
ContinueParsed(frames) ==
    /\ UNCHANGED <<valVars, sessionVars, fileVars>>
    /\ op = "continue" /\ pc = "loop"
    /\ gen_calls' = gen_calls + 1
    /\ gen_log' = Append(gen_log, [raised |-> <<>>, parsed |-> <<frames>>])
    /\ pc' = "returned"
    /\ result' = Returned(frames)
    /\ UNCHANGED <<op, args, fixed_terrain, attempt, messages, scenario, search_calls>>

\* the generator call raises e
ContinueGeneratorRaises(e) ==
    /\ UNCHANGED <<valVars, sessionVars, fileVars>>
    /\ op = "continue" /\ pc = "loop"
    /\ gen_calls' = gen_calls + 1
    /\ gen_log' = Append(gen_log, [raised |-> <<e>>, parsed |-> <<>>])
    /\ pc' = "raised"
    /\ result' = Raised(ContinueRaise(e))
    /\ UNCHANGED <<op, args, fixed_terrain, attempt, messages, scenario, search_calls>>

\* the call is over: its result went to the caller and its locals are gone
CallEnds ==
    /\ UNCHANGED <<valVars, sessionVars, fileVars>>
    /\ pc \in {"returned", "raised"}
    /\ op' = "none"
    /\ pc' = "idle"
    /\ args' = Args("", FALSE, FALSE, 0, <<>>)
    /\ fixed_terrain' = <<>>
    /\ attempt' = 0 /\ messages' = <<>> /\ scenario' = <<>>
    /\ gen_calls' = 0 /\ search_calls' = 0 /\ gen_log' = <<>>
    /\ result' = NoResult

\* ---------------------------------------------------------- specification
\* the terrain grid the caller may want pinned: none, or the all-Open grid.
\* fetch_scenario has no parameter that receives it.
SuppliedGrids == {<<>>, <<GridOpen>>}

Next ==
    \/ \E key \in {"", "sk-key"}, search \in BOOLEAN, grid \in SuppliedGrids, data \in Candidates :
            FetchMockLoads(key, search, grid, data)
    \/ \E key \in {"", "sk-key"}, search \in BOOLEAN, grid \in SuppliedGrids :
            FetchMockFails(key, search, grid)
    \/ \E key \in {"", "sk-key"}, search \in BOOLEAN, grid \in SuppliedGrids, intel \in SearchDigests :
            FetchCall(key, search, grid, intel)
    \/ \E c \in Candidates : FetchParsed(c)
    \/ \E e \in GeneratorFailures : FetchGeneratorRaises(e)
    \/ \E key \in {"", "sk-key"}, cur \in ContinuableScenarios, idx \in 0..2 :
            ContinueCall(key, cur, idx)
    \/ \E frames \in Extensions : ContinueParsed(frames)
    \/ \E e \in GeneratorFailures : ContinueGeneratorRaises(e)
    \/ CallEnds

Spec == Init /\ [][Next]_vars

\* ------------------------------------------------------------- properties
\* the generator's answer at its i-th call of the running fetch_scenario
AnsweredCandidate(i) == gen_log[i].parsed # <<>>

AnsweredFailure(i) == gen_log[i].raised # <<>>

CandidateAt(i) == gen_log[i].parsed[1]

FailureAt(i) == gen_log[i].raised[1]

\* the candidate carries at least one validation error once validated
HasErrors(c) == \E k \in 1..Len(c.frames) : FrameErrors(c, k) # <<>>

AllCandidatesHadErrors ==
    \A i \in 1..Len(gen_log) : AnsweredCandidate(i) /\ HasErrors(CandidateAt(i))

Terminated == pc \in {"returned", "raised"}

NonMockFetch == op = "fetch" /\ ~args.use_mock

\* C1: one non-mock fetch_scenario calls the generator at most 4 times, is
\* over once the 4th call was answered, and has called it exactly 4 times
\* when it ends after answers that were all candidates with errors.
C1_AtMostFourCalls ==
    NonMockFetch =>
        /\ gen_calls <= 4
        /\ gen_calls = Len(gen_log)
        /\ (gen_calls = 4 => Terminated)
        /\ (Terminated /\ gen_log # <<>> /\ AllCandidatesHadErrors => gen_calls = 4)

C1_Witness ==
    /\ NonMockFetch /\ pc = "returned" /\ gen_calls = 4 /\ AllCandidatesHadErrors

\* C2: a candidate with zero validation errors ends the call at once: it is
\* the last answer, the call returned it (validated), and the generator was
\* called as many times as the attempt that answered it.
C2_CleanCandidateReturned ==
    NonMockFetch =>
        \A i \in 1..Len(gen_log) :
            (AnsweredCandidate(i) /\ ~HasErrors(CandidateAt(i))) =>
                /\ i = Len(gen_log)
                /\ gen_calls = i
                /\ pc = "returned"
                /\ result = Returned(validate_scenario(CandidateAt(i)))
                /\ result.value[1].terrain_map = CandidateAt(i).terrain_map
                /\ \A k \in 1..Len(CandidateAt(i).frames) :
                      /\ result.value[1].frames[k].unit_positions
                            = CandidateAt(i).frames[k].unit_positions
                      /\ result.value[1].frames[k].validation_errors = <<>>

C2_Witness ==
    /\ NonMockFetch /\ pc = "returned" /\ gen_calls = 1
    /\ AnsweredCandidate(1) /\ ~HasErrors(CandidateAt(1))

\* C3: four candidates with errors in a row make the call return the 4th
\* one with its validation_errors stamped, and a call never raises right
\* after the generator answered a candidate.
C3_ExhaustedReturnsLast ==
    NonMockFetch =>
        /\ (Len(gen_log) = 4 /\ AllCandidatesHadErrors) =>
              /\ pc = "returned"
              /\ result = Returned(validate_scenario(CandidateAt(4)))
              /\ \E k \in 1..Len(result.value[1].frames) :
                    result.value[1].frames[k].validation_errors # <<>>
        /\ (gen_log # <<>> /\ AnsweredCandidate(Len(gen_log))) => pc # "raised"

C3_Witness ==
    /\ NonMockFetch /\ Len(gen_log) = 4 /\ AllCandidatesHadErrors /\ pc = "returned"
    /\ CandidateAt(4) # CandidateAt(3)

IsBackendFailure(e) == "APIError" \in e.bases

\* C4: an authentication, rate-limit, connectivity or other backend error
\* of the generator ends the call with an exception at that very attempt:
\* it is the last answer and nothing is returned.
C4_BackendFailureNotRetried ==
    NonMockFetch =>
        \A i \in 1..Len(gen_log) :
            (AnsweredFailure(i) /\ IsBackendFailure(FailureAt(i))) =>
                /\ i = Len(gen_log)
                /\ gen_calls = i
                /\ attempt = i - 1
                /\ pc = "raised"
                /\ result.status = "raised"
                /\ result.value = <<>>

C4_Witness ==
    /\ NonMockFetch /\ pc = "raised" /\ Len(gen_log) = 3
    /\ AnsweredFailure(3) /\ FailureAt(3).class = "APIConnectionError"

IsMalformedResponse(e) == e.class = "ValidationError"

\* C5: a response that does not parse into a scenario ends the call with an
\* exception at the attempt where it occurs, without a further generator call.
C5_MalformedSurfacedAtOnce ==
    NonMockFetch =>
        \A i \in 1..Len(gen_log) :
            (AnsweredFailure(i) /\ IsMalformedResponse(FailureAt(i))) =>
                /\ i = Len(gen_log)
                /\ pc = "raised"

MissingKeyError == ValueError(<<"OpenAI API Key is missing.">>)

\* C6: without an API key (mock mode off) fetch_scenario and
\* continue_scenario end with the missing-key ValueError, having called
\* neither the generator nor the intelligence search.
C6_MissingKeyFailsFast ==
    (op \in {"fetch", "continue"} /\ ~args.use_mock /\ args.api_key = "") =>
        /\ pc = "raised"
        /\ result = Raised(MissingKeyError)
        /\ gen_calls = 0
        /\ search_calls = 0
        /\ gen_log = <<>>
        /\ messages = <<>>

C6_Witness ==
    /\ op = "fetch" /\ ~args.use_mock /\ args.api_key = "" /\ args.use_search
    /\ pc = "raised"

InvalidKeyError == ValueError(<<"Invalid OpenAI API Key. Please check your credentials.">>)

\* the kind of an error outcome: the exception type and the fixed text
ErrorKind(exc) == <<exc.type, exc.msg[1]>>

\* C7: in fetch_scenario an authentication failure ends the call with the
\* invalid-key ValueError, and a rate-limit, connectivity or other backend
\* failure ends it with an error of another type and text.
C7_AuthFailureDistinct ==
    (NonMockFetch /\ pc = "raised" /\ gen_log # <<>>) =>
        LET e == FailureAt(Len(gen_log))
        IN  /\ e.class = "AuthenticationError" => result.exc[1] = InvalidKeyError
            /\ (IsBackendFailure(e) /\ e.class # "AuthenticationError") =>
                  /\ result.exc[1].type # InvalidKeyError.type
                  /\ ErrorKind(result.exc[1]) # ErrorKind(InvalidKeyError)

C7_Witness ==
    /\ NonMockFetch /\ pc = "raised" /\ Len(gen_log) = 2
    /\ FailureAt(2).class = "AuthenticationError"

\* C8: in continue_scenario the error outcome of a generator failure is of
\* a kind that no other failure mode produces.
C8_ContinueFailuresDistinct ==
    (op = "continue" /\ pc = "raised" /\ gen_log # <<>>) =>
        \A other \in GeneratorFailures :
            other # FailureAt(1) =>
                ErrorKind(ContinueRaise(other)) # ErrorKind(result.exc[1])

\* C9: when a terrain grid is pinned, the returned scenario carries it.
C9_FixedTerrainWins ==
    (NonMockFetch /\ pc = "returned" /\ fixed_terrain # <<>>) =>
        result.value[1].terrain_map = fixed_terrain[1]

\* the validation errors of candidate c, one list per frame
ErrorsByFrame(c) == [n \in 1..Len(c.frames) |-> FrameErrors(c, n)]

\* the number of errors in the lists before the n-th one
RECURSIVE ErrorsBefore(_, _)
ErrorsBefore(lists, n) ==
    IF n <= 1 THEN 0 ELSE ErrorsBefore(lists, n - 1) + Len(lists[n - 1])

TotalErrors(lists) == ErrorsBefore(lists, Len(lists) + 1)

\* the k-th error, counting frame by frame and within a frame in the order
\* of its list, as a feedback entry
KthEntry(lists, k) ==
    LET n == CHOOSE m \in 1..Len(lists) :
                 ErrorsBefore(lists, m) < k /\ k <= ErrorsBefore(lists, m + 1)
    IN  <<"Frame", n, lists[n][k - ErrorsBefore(lists, n)]>>

\* the calls of the generator that answered a candidate, in order
ParsedCalls == Ascending({i \in 1..Len(gen_log) : AnsweredCandidate(i)})

\* the feedback messages of the conversation, in order
FeedbackTurns == Ascending({i \in 3..Len(messages) : messages[i].role = "user"})

\* C10: the j-th feedback of a call lists the first min(10, E) validation
\* errors of the j-th candidate, in frame order then list order, each as
\* "Frame N: <error>" with N the 1-based index of the error's frame.
C10_FeedbackLists ==
    NonMockFetch =>
        \A j \in 1..Len(FeedbackTurns) :
            LET errors == ErrorsByFrame(CandidateAt(ParsedCalls[j]))
                lines == messages[FeedbackTurns[j]].content[2]
            IN  /\ Len(lines) = Min(10, TotalErrors(errors))
                /\ \A k \in 1..Len(lines) : lines[k] = KthEntry(errors, k)

C10_Witness ==
    /\ NonMockFetch
    /\ \E j \in 1..Len(FeedbackTurns) :
          LET lines == messages[FeedbackTurns[j]].content[2]
          IN  /\ Len(lines) = 10
              /\ TotalErrors(ErrorsByFrame(CandidateAt(ParsedCalls[j]))) > 10
              /\ lines[1][2] = 2
              /\ lines[10][2] = 3

\* ------------------------------------------- validate_scenario on its own
\* bounds of the scenarios handed to the validator
MaxValFrames == 3
\* units of a scenario, all frames together
MaxValUnits == 3
\* calls of validate_scenario in a row on one scenario
MaxValRuns == 2

ValIds == {<<"U", 1>>, <<"U", 2>>}

\* (0,0); (3,0) at distance 3.0 of it; (3,1) at distance sqrt(10) of it
ValPositions == {<<0, 0>>, <<3, 0>>, <<3, 1>>}

\* U1 at each of the positions, and U2 at (3,1)
ValUnits ==
    {Unit(<<"U", 1>>, p[1], p[2]) : p \in ValPositions} \cup {Unit(<<"U", 2>>, 3, 1)}

\* an empty grid; a 4 x 2 grid with Forest at (0,0), Urban at (3,0) and Water
\* at (3,1); a 3 x 2 grid with Open at (0,0) that leaves x = 3 outside
ValTerrains ==
    { <<>>,
      << <<FOREST, OPEN, OPEN, URBAN>>, <<OPEN, OPEN, OPEN, WATER>> >>,
      << <<OPEN, WATER, OPEN>>, <<OPEN, OPEN, OPEN>> >> }

\* what validation_errors can hold before a call: nothing, or a stale entry
PriorAnnotations == {<<>>, << <<"hand-authored">> >>}

\* the unit lists of length n
UnitLists(n) == [1..n -> ValUnits]

\* the lists of f frames that hold at most budget units together
RECURSIVE FrameListsWith(_, _, _)
FrameListsWith(f, budget, prior) ==
    IF f = 0 THEN {<<>>}
    ELSE UNION { { <<Frame(units, prior)>> \o rest :
                     units \in UnitLists(n),
                     rest \in FrameListsWith(f - 1, budget - n, prior) } :
                 n \in 0..budget }

\* the scenarios of at most max_frames frames and max_units units
ValScenarios(max_frames, max_units) ==
    { WargameScenario(t, fs) :
        t \in ValTerrains,
        fs \in UNION { FrameListsWith(f, max_units, prior) :
                         f \in 0..max_frames, prior \in PriorAnnotations } }

ValInit ==
    /\ CallIdle
    /\ SessionFresh
    /\ FileIdle
    /\ val_scenario \in {<<s>> : s \in ValScenarios(MaxValFrames, MaxValUnits)}
    /\ val_runs = 0
    /\ val_status = "none"

\* validator.validate_scenario(scenario) on the object
ValidateCall ==
    /\ val_scenario # <<>>
    /\ val_runs < MaxValRuns
    /\ val_runs' = val_runs + 1
    /\ IF ValidateRaises(val_scenario[1])
         THEN /\ val_status' = "raised"
              /\ UNCHANGED val_scenario
         ELSE /\ val_status' = "ok"
              /\ val_scenario' = <<validate_scenario(val_scenario[1])>>
    /\ UNCHANGED <<callVars, sessionVars, fileVars>>

ValNext == ValidateCall

SpecVal == ValInit /\ [][ValNext]_vars

\* ------------------------------------------------- the session (state_manager)
\* set_scenario calls, successful branches and frames of one scenario
MaxSets == 2
MaxBranches == 2
MaxSessFrames == 4

\* Forest at (0,0), Urban at (3,0), Water at (3,1)
SessGrid == << <<FOREST, OPEN, OPEN, URBAN>>, <<OPEN, OPEN, OPEN, WATER>> >>

\* scenarios model_validate_json accepts: without frames, with one frame, and
\* with three frames, as saved or with a stale annotation
SessFrameLists ==
    { <<>>,
      <<Frame(<<Unit(<<"U", 2>>, 3, 0)>>, <<>>)>>,
      <<Frame(<<U1(0, 0)>>, <<>>), Frame(<<U1(3, 0)>>, <<>>), Frame(<<U1(3, 1)>>, <<>>)>>,
      <<Frame(<<U1(0, 0)>>, << <<"hand-authored">> >>), Frame(<<U1(3, 0)>>, <<>>),
        Frame(<<U1(3, 1)>>, <<>>)>> }

SessScenarios == {WargameScenario(SessGrid, fs) : fs \in SessFrameLists}

\* extension.frames of a continuation: none, one frame, two frames
SessExtensions ==
    { <<>>,
      <<Frame(<<U1(3, 0)>>, <<>>)>>,
      <<Frame(<<U1(3, 1)>>, << <<"hand-authored">> >>), Frame(<<U1(3, 0)>>, <<>>)>> }

ActiveScenario == current_scenario[1]

\* initialize_state() on a session without keys
SessInit == CallIdle /\ ValIdle /\ FileIdle /\ SessionFresh

\* both counters swapped
update_metrics_swapped(num_frames) ==
    [total_scenarios_run |-> total_scenarios_run + num_frames,
     total_frames_generated |-> total_frames_generated + 1]

update_metrics(num_frames) ==
    [total_scenarios_run |-> total_scenarios_run + 1,
     total_frames_generated |-> total_frames_generated + num_frames]

\* the tail of the "Generate Simulation" handler on the scenario that
\* fetch_scenario returned: validate_scenario, then set_scenario
SetScenario(scenario_data) ==
    /\ set_calls < MaxSets
    /\ current_scenario' = <<validate_scenario(scenario_data)>>
    /\ current_frame_index' = 0
    /\ total_scenarios_run' = update_metrics(Len(scenario_data.frames)).total_scenarios_run
    /\ total_frames_generated' = update_metrics(Len(scenario_data.frames)).total_frames_generated
    /\ set_calls' = set_calls + 1
    /\ set_frames' = set_frames + Len(scenario_data.frames)
    /\ last_op' = Op("set_scenario", scenario_data.frames)
    /\ UNCHANGED <<branches, session_keys, edits, callVars, valVars, fileVars>>

\* state_manager.load_existing_scenario(scenario_data)
load_existing_scenario(scenario_data) ==
    /\ current_scenario' = <<scenario_data>>
    /\ current_frame_index' = 0
    /\ last_op' = Op("load_existing_scenario", scenario_data.frames)
    /\ UNCHANGED <<total_frames_generated, total_scenarios_run, set_calls, set_frames,
                   branches, session_keys, edits>>

\* the upload handler: the parsed file goes to load_existing_scenario as it is
LoadExistingScenario(scenario_data) ==
    /\ load_existing_scenario(scenario_data)
    /\ UNCHANGED <<callVars, valVars, fileVars>>

\* "<= len(frames) - 1" in place of "< len(frames) - 1"
CanAdvance_inclusive ==
    current_scenario # <<>> /\ current_frame_index <= Len(ActiveScenario.frames) - 1

\* the condition of next_frame
CanAdvance ==
    current_scenario # <<>> /\ current_frame_index < Len(ActiveScenario.frames) - 1

\* the condition of prev_frame
CanRetreat == current_scenario # <<>> /\ current_frame_index > 0

next_frame ==
    /\ current_frame_index' =
          IF CanAdvance THEN current_frame_index + 1 ELSE current_frame_index
    /\ last_op' = Op("next_frame", <<>>)
    /\ UNCHANGED <<total_frames_generated, total_scenarios_run, current_scenario,
                   set_calls, set_frames, branches, session_keys, edits, callVars, valVars, fileVars>>

prev_frame ==
    /\ current_frame_index' =
          IF CanRetreat THEN current_frame_index - 1 ELSE current_frame_index
    /\ last_op' = Op("prev_frame", <<>>)
    /\ UNCHANGED <<total_frames_generated, total_scenarios_run, current_scenario,
                   set_calls, set_frames, branches, session_keys, edits, callVars, valVars, fileVars>>

\* the frames kept without the cut
frames_upto_all(frames, current_idx) == frames

\* scenario.frames[:current_idx+1]
frames_upto(frames, current_idx) == Take(frames, current_idx + 1)

\* the branching controls are drawn: a scenario is active and
\* scenario.frames[current_idx] was read for the display
BranchOffered ==
    /\ current_scenario # <<>>
    /\ current_frame_index < Len(ActiveScenario.frames)

\* the counter raised by the length of the merged frame list
BranchReturns_countsAll(new_frames) ==
    /\ BranchOffered
    /\ branches < MaxBranches
    /\ current_frame_index + 1 + Len(new_frames) <= MaxSessFrames
    /\ current_scenario' =
          <<validate_scenario(
              [ActiveScenario EXCEPT !.frames =
                  frames_upto(ActiveScenario.frames, current_frame_index) \o new_frames])>>
    /\ total_frames_generated' =
          total_frames_generated + current_frame_index + 1 + Len(new_frames)
    /\ branches' = branches + 1
    /\ last_op' = Op("branch", new_frames)
    /\ UNCHANGED <<total_scenarios_run, current_frame_index, set_calls, set_frames,
                   session_keys, edits, callVars, valVars, fileVars>>

\* "Regenerate Future Frames", continue_scenario returning new_frames:
\* truncate, extend, validate the whole scenario, count the new frames
BranchReturns(new_frames) ==
    /\ BranchOffered
    /\ branches < MaxBranches
    /\ current_frame_index + 1 + Len(new_frames) <= MaxSessFrames
    /\ current_scenario' =
          <<validate_scenario(
              [ActiveScenario EXCEPT !.frames =
                  frames_upto(ActiveScenario.frames, current_frame_index) \o new_frames])>>
    /\ total_frames_generated' = total_frames_generated + Len(new_frames)
    /\ branches' = branches + 1
    /\ last_op' = Op("branch", new_frames)
    /\ UNCHANGED <<total_scenarios_run, current_frame_index, set_calls, set_frames,
                   session_keys, edits, callVars, valVars, fileVars>>

\* the failure handler putting the discarded frames back
BranchRaises_restores(e) ==
    /\ BranchOffered
    /\ ContinueRaise(e).type = "RuntimeError"
    /\ last_op' = Op("branch failed", <<>>)
    /\ UNCHANGED <<total_frames_generated, total_scenarios_run, current_scenario,
                   current_frame_index, set_calls, set_frames, branches, session_keys, edits,
                   callVars, valVars, fileVars>>

\* "Regenerate Future Frames", continue_scenario raising after the cut
BranchRaises(e) ==
    /\ BranchOffered
    /\ ContinueRaise(e).type = "RuntimeError"
    /\ current_scenario' =
          <<[ActiveScenario EXCEPT !.frames =
                frames_upto(ActiveScenario.frames, current_frame_index)]>>
    /\ last_op' = Op("branch failed", <<>>)
    /\ UNCHANGED <<total_frames_generated, total_scenarios_run, current_frame_index,
                   set_calls, set_frames, branches, session_keys, edits, callVars, valVars, fileVars>>

\* st.session_state as initialize_state sees it
SessionState ==
    [k \in session_keys |->
        [total_frames_generated |-> total_frames_generated,
         total_scenarios_run |-> total_scenarios_run,
         current_scenario |-> current_scenario,
         current_frame_index |-> current_frame_index][k]]

\* app.py runs initialize_state() at the top of every rerun
InitializeState ==
    /\ total_frames_generated' = initialize_state(SessionState).total_frames_generated
    /\ total_scenarios_run' = initialize_state(SessionState).total_scenarios_run
    /\ current_scenario' = initialize_state(SessionState).current_scenario
    /\ current_frame_index' = initialize_state(SessionState).current_frame_index
    /\ session_keys' = DOMAIN initialize_state(SessionState)
    /\ last_op' = Op("initialize_state", <<>>)
    /\ UNCHANGED <<set_calls, set_frames, branches, edits, callVars, valVars, fileVars>>

\* the timeline slider moved to v (min_value 0, max_value total_frames - 1):
\* update_timeline copies it to the cursor
SliderJump_pastEnd(v) ==
    /\ BranchOffered
    /\ v \in 0..Len(ActiveScenario.frames)
    /\ current_frame_index' = v
    /\ last_op' = Op("slider", <<>>)
    /\ UNCHANGED <<total_frames_generated, total_scenarios_run, current_scenario,
                   set_calls, set_frames, branches, session_keys, edits,
                   callVars, valVars, fileVars>>

SliderJump(v) ==
    /\ BranchOffered
    /\ v \in 0..(Len(ActiveScenario.frames) - 1)
    /\ current_frame_index' = v
    /\ last_op' = Op("slider", <<>>)
    /\ UNCHANGED <<total_frames_generated, total_scenarios_run, current_scenario,
                   set_calls, set_frames, branches, session_keys, edits,
                   callVars, valVars, fileVars>>

\* the "Start" button
StartButton ==
    /\ BranchOffered
    /\ current_frame_index' = 0
    /\ last_op' = Op("start", <<>>)
    /\ UNCHANGED <<total_frames_generated, total_scenarios_run, current_scenario,
                   set_calls, set_frames, branches, session_keys, edits,
                   callVars, valVars, fileVars>>

\* the "End" button: total_frames - 1
EndButton ==
    /\ BranchOffered
    /\ current_frame_index' = Len(ActiveScenario.frames) - 1
    /\ last_op' = Op("end", <<>>)
    /\ UNCHANGED <<total_frames_generated, total_scenarios_run, current_scenario,
                   set_calls, set_frames, branches, session_keys, edits,
                   callVars, valVars, fileVars>>

\* ------------------------------------------------- the battlefield editor
\* edits of one session
MaxEdits == 1

\* the cell picked with "Grid X" and "Grid Y": the Urban cell (3,0)
EditorCells == {<<3, 0>>}

\* the "Unit ID" input: an id in use
EditorIds == {<<"U", 1>>}

\* the editor is drawn: the display read frames[current_idx] and the
\* coordinate inputs read terrain_map[0]
EditorOffered ==
    /\ BranchOffered
    /\ Len(ActiveScenario.terrain_map) > 0
    /\ edits < MaxEdits

\* the positions in units of the units on (x, y)
UnitsAt(units, x, y) == {n \in 1..Len(units) : units[n].x = x /\ units[n].y = y}

\* found_unit: the first unit of the frame on (x, y), <<>> for None
found_unit(units, x, y) ==
    IF UnitsAt(units, x, y) = {} THEN <<>>
    ELSE <<CHOOSE n \in UnitsAt(units, x, y) : \A m \in UnitsAt(units, x, y) : n <= m>>

\* list.remove of the unit at position n
RemoveAt(units, n) == SubSeq(units, 1, n - 1) \o SubSeq(units, n + 1, Len(units))

\* "Place / Update Unit": found_unit removed, the new unit appended
place_unit(units, id, x, y) ==
    (IF found_unit(units, x, y) = <<>> THEN units
     ELSE RemoveAt(units, found_unit(units, x, y)[1])) \o <<Unit(id, x, y)>>

\* the frame on display
CurrentUnits == ActiveScenario.frames[current_frame_index + 1].unit_positions

\* "Set": scenario.terrain_map[edit_y][edit_x] = new_terrain
SetTerrain(x, y, new_terrain) ==
    /\ EditorOffered
    /\ y < Len(ActiveScenario.terrain_map) /\ x < Len(ActiveScenario.terrain_map[1])
    /\ current_scenario' =
          <<[ActiveScenario EXCEPT !.terrain_map[y + 1][x + 1] = new_terrain]>>
    /\ edits' = edits + 1
    /\ last_op' = Op("set_terrain", <<>>)
    /\ UNCHANGED <<total_frames_generated, total_scenarios_run, current_frame_index,
                   set_calls, set_frames, branches, session_keys,
                   callVars, valVars, fileVars>>

PlaceUnit(x, y, id) ==
    /\ EditorOffered
    /\ y < Len(ActiveScenario.terrain_map) /\ x < Len(ActiveScenario.terrain_map[1])
    /\ current_scenario' =
          <<[ActiveScenario EXCEPT !.frames[current_frame_index + 1].unit_positions =
                place_unit(CurrentUnits, id, x, y)]>>
    /\ edits' = edits + 1
    /\ last_op' = Op("place_unit", <<>>)
    /\ UNCHANGED <<total_frames_generated, total_scenarios_run, current_frame_index,
                   set_calls, set_frames, branches, session_keys,
                   callVars, valVars, fileVars>>

\* "Remove Unit", offered when a unit stands on the cell
RemoveUnit(x, y) ==
    /\ EditorOffered
    /\ y < Len(ActiveScenario.terrain_map) /\ x < Len(ActiveScenario.terrain_map[1])
    /\ found_unit(CurrentUnits, x, y) # <<>>
    /\ current_scenario' =
          <<[ActiveScenario EXCEPT !.frames[current_frame_index + 1].unit_positions =
                RemoveAt(CurrentUnits, found_unit(CurrentUnits, x, y)[1])]>>
    /\ edits' = edits + 1
    /\ last_op' = Op("remove_unit", <<>>)
    /\ UNCHANGED <<total_frames_generated, total_scenarios_run, current_frame_index,
                   set_calls, set_frames, branches, session_keys,
                   callVars, valVars, fileVars>>

\* generations, successful branches and edits of one session, together
MaxOps == 3

OpsLeft == set_calls + branches + edits < MaxOps

SessNext ==
    \/ \E s \in SessScenarios : OpsLeft /\ SetScenario(s)
    \/ \E s \in SessScenarios : LoadExistingScenario(s)
    \/ next_frame
    \/ prev_frame
    \/ \E new_frames \in SessExtensions : OpsLeft /\ BranchReturns(new_frames)
    \/ \E e \in GeneratorFailures : BranchRaises(e)
    \/ InitializeState
    \/ \E v \in 0..MaxSessFrames : SliderJump(v)
    \/ StartButton
    \/ EndButton
    \/ \E c \in EditorCells : OpsLeft /\ SetTerrain(c[1], c[2], WATER)
    \/ \E c \in EditorCells, id \in EditorIds : OpsLeft /\ PlaceUnit(c[1], c[2], id)
    \/ \E c \in EditorCells : OpsLeft /\ RemoveUnit(c[1], c[2])

SpecSession == SessInit /\ [][SessNext]_vars

\* ---------------------------------------------------- persisted documents
\* JSON values: numbers, strings, null, arrays, objects, and text that is
\* not JSON
JInt(n) == [j |-> "int", v |-> n]

JStr(text) == [j |-> "str", v |-> text]

JNull == [j |-> "null"]

JArr(items) == [j |-> "arr", v |-> items]

JObj(fields) == [j |-> "obj", v |-> fields]

JGarbage == [j |-> "not json"]

\* config.UnitSide, a str Enum
BLUE == [name |-> "BLUE", value |-> "Blue"]

RED == [name |-> "RED", value |-> "Red"]

UnitSide == {BLUE, RED}

\* the Literal of CombatEvent.action_type
ActionTypes == {"Move", "Fire", "Suppression", "Retreat", "Reinforce", "Intel"}

\* models.Unit, models.CombatEvent and models.Frame with every field
UnitModel(unit_id, side, x, y, health, range) ==
    [unit_id |-> unit_id, side |-> side, type |-> "Tank", x |-> x, y |-> y,
     health |-> health, range |-> range, status |-> "Active"]

CombatEvent(source, target, action_type) ==
    [source_unit_id |-> source, target_unit_id |-> target,
     action_type |-> action_type, details |-> "Fired 120mm shell", outcome |-> <<>>]

FrameModel(units, combat_log, errors) ==
    [frame_description |-> "Advance", unit_positions |-> units,
     combat_log |-> combat_log, validation_errors |-> errors]

\* the text of an Optional[str]
OptionalJson(value) == IF value = <<>> THEN JNull ELSE JStr(value[1])

UnitJson(unit) ==
    JObj([unit_id |-> JStr(unit.unit_id), side |-> JStr(unit.side.value),
          type |-> JStr(unit.type), x |-> JInt(unit.x), y |-> JInt(unit.y),
          health |-> JInt(unit.health), range |-> JInt(unit.range),
          status |-> JStr(unit.status)])

CombatEventJson(event) ==
    JObj([source_unit_id |-> JStr(event.source_unit_id),
          target_unit_id |-> OptionalJson(event.target_unit_id),
          action_type |-> JStr(event.action_type),
          details |-> JStr(event.details),
          outcome |-> OptionalJson(event.outcome)])

\* the frame written without its validation_errors
FrameJson_noErrors(frame) ==
    JObj([frame_description |-> JStr(frame.frame_description),
          unit_positions |-> JArr([i \in 1..Len(frame.unit_positions) |->
                                      UnitJson(frame.unit_positions[i])]),
          combat_log |-> JArr([i \in 1..Len(frame.combat_log) |->
                                  CombatEventJson(frame.combat_log[i])])])

FrameJson(frame) ==
    JObj([frame_description |-> JStr(frame.frame_description),
          unit_positions |-> JArr([i \in 1..Len(frame.unit_positions) |->
                                      UnitJson(frame.unit_positions[i])]),
          combat_log |-> JArr([i \in 1..Len(frame.combat_log) |->
                                  CombatEventJson(frame.combat_log[i])]),
          validation_errors |-> JArr([i \in 1..Len(frame.validation_errors) |->
                                         JStr(frame.validation_errors[i])])])

\* scenario.model_dump_json(indent=2) as the download button writes it
ScenarioJson(scenario_data) ==
    JObj([terrain_map |-> JArr([y \in 1..Len(scenario_data.terrain_map) |->
                                   JArr([x \in 1..Len(scenario_data.terrain_map[y]) |->
                                           JInt(scenario_data.terrain_map[y][x])])]),
          frames |-> JArr([k \in 1..Len(scenario_data.frames) |->
                              FrameJson(scenario_data.frames[k])])])

\* the digit strings that appear in the documents, and the int they spell
NumericStrings == ("1" :> 1) @@ ("-1" :> (0 - 1))

\* validation results: <<>> is a ValidationError, <<v>> the validated value
Invalid == <<>>

Valid(value) == <<value>>

AllValid(results) == \A i \in DOMAIN results : results[i] # Invalid

Values(results) == [i \in DOMAIN results |-> results[i][1]]

InRange(n, ge, le) == (ge = <<>> \/ n >= ge[1]) /\ (le = <<>> \/ n <= le[1])

\* an int field with optional ge / le: a JSON integer, or (lax mode) a
\* string that spells one
validate_int(tok, ge, le) ==
    LET n == IF tok.j = "int" THEN Valid(tok.v)
             ELSE IF tok.j = "str" /\ tok.v \in DOMAIN NumericStrings
                  THEN Valid(NumericStrings[tok.v])
             ELSE Invalid
    IN  IF n # Invalid /\ InRange(n[1], ge, le) THEN n ELSE Invalid

validate_str(tok) == IF tok.j = "str" THEN Valid(tok.v) ELSE Invalid

validate_optional_str(tok) ==
    IF tok.j = "null" THEN Valid(<<>>)
    ELSE IF tok.j = "str" THEN Valid(<<tok.v>>)
    ELSE Invalid

validate_side(tok) ==
    IF tok.j = "str" /\ \E m \in UnitSide : m.value = tok.v
    THEN Valid(CHOOSE m \in UnitSide : m.value = tok.v)
    ELSE Invalid

validate_action_type(tok) ==
    IF tok.j = "str" /\ tok.v \in ActionTypes THEN Valid(tok.v) ELSE Invalid

validate_list(tok, validate_item(_)) ==
    IF tok.j # "arr" THEN Invalid
    ELSE LET results == [i \in 1..Len(tok.v) |-> validate_item(tok.v[i])]
         IN  IF AllValid(results) THEN Valid(Values(results)) ELSE Invalid

\* a field of an object: validated when present, else its default, or a
\* ValidationError for a required field (default = Invalid)
validate_field(obj, key, validate_item(_), default) ==
    IF key \in DOMAIN obj THEN validate_item(obj[key]) ELSE default

validate_Unit(tok) ==
    IF tok.j # "obj" THEN Invalid
    ELSE LET ge0(t) == validate_int(t, <<0>>, <<>>)
             ge1(t) == validate_int(t, <<1>>, <<>>)
             pct(t) == validate_int(t, <<0>>, <<100>>)
             fields == [unit_id |-> validate_field(tok.v, "unit_id", validate_str, Invalid),
                        side    |-> validate_field(tok.v, "side", validate_side, Invalid),
                        type    |-> validate_field(tok.v, "type", validate_str, Invalid),
                        x       |-> validate_field(tok.v, "x", ge0, Invalid),
                        y       |-> validate_field(tok.v, "y", ge0, Invalid),
                        health  |-> validate_field(tok.v, "health", pct, Valid(100)),
                        range   |-> validate_field(tok.v, "range", ge1, Valid(1)),
                        status  |-> validate_field(tok.v, "status", validate_str, Valid("Active"))]
         IN  IF AllValid(fields) THEN Valid(Values(fields)) ELSE Invalid

validate_CombatEvent(tok) ==
    IF tok.j # "obj" THEN Invalid
    ELSE LET fields ==
                 [source_unit_id |-> validate_field(tok.v, "source_unit_id", validate_str, Invalid),
                  target_unit_id |-> validate_field(tok.v, "target_unit_id", validate_optional_str, Valid(<<>>)),
                  action_type    |-> validate_field(tok.v, "action_type", validate_action_type, Invalid),
                  details        |-> validate_field(tok.v, "details", validate_str, Invalid),
                  outcome        |-> validate_field(tok.v, "outcome", validate_optional_str, Valid(<<>>))]
         IN  IF AllValid(fields) THEN Valid(Values(fields)) ELSE Invalid

validate_Frame(tok) ==
    IF tok.j # "obj" THEN Invalid
    ELSE LET units(t) == validate_list(t, validate_Unit)
             events(t) == validate_list(t, validate_CombatEvent)
             strings(t) == validate_list(t, validate_str)
             fields ==
                 [frame_description |-> validate_field(tok.v, "frame_description", validate_str, Invalid),
                  unit_positions    |-> validate_field(tok.v, "unit_positions", units, Invalid),
                  combat_log        |-> validate_field(tok.v, "combat_log", events, Valid(<<>>)),
                  validation_errors |-> validate_field(tok.v, "validation_errors", strings, Valid(<<>>))]
         IN  IF AllValid(fields) THEN Valid(Values(fields)) ELSE Invalid

\* WargameScenario.model_validate_json(json_data): keys the model does not
\* declare are ignored
model_validate_json(tok) ==
    IF tok.j # "obj" THEN Invalid
    ELSE LET cell(t) == validate_int(t, <<>>, <<>>)
             row(t) == validate_list(t, cell)
             grid(t) == validate_list(t, row)
             frames(t) == validate_list(t, validate_Frame)
             fields == [terrain_map |-> validate_field(tok.v, "terrain_map", grid, Invalid),
                        frames      |-> validate_field(tok.v, "frames", frames, Invalid)]
         IN  IF AllValid(fields) THEN Valid(Values(fields)) ELSE Invalid

\* --------------------------------------------- saving and loading a scenario
FileGrid == << <<OPEN, WATER>>, <<URBAN, FOREST>> >>

UnitA == UnitModel("A-1", BLUE, 0, 0, 100, 1)

UnitB == UnitModel("B-1", RED, 1, 0, 50, 3)

\* scenarios the program can hold: one frame; two frames, the second with a
\* validation error and an event without target; no terrain and no frame
FileScenarios ==
    { WargameScenario(FileGrid,
          <<FrameModel(<<UnitA, UnitB>>, <<CombatEvent("A-1", <<"B-1">>, "Fire")>>, <<>>)>>),
      WargameScenario(FileGrid,
          <<FrameModel(<<UnitA>>, <<>>, <<>>),
            FrameModel(<<UnitA, UnitB>>, <<CombatEvent("B-1", <<>>, "Move")>>,
                       <<WaterError(UnitB)>>)>>),
      WargameScenario(<<>>, <<>>) }

\* the document of the one-frame scenario, which the variants below alter
BaseDocument ==
    ScenarioJson(WargameScenario(FileGrid,
        <<FrameModel(<<UnitA, UnitB>>, <<CombatEvent("A-1", <<"B-1">>, "Fire")>>, <<>>)>>))

\* the document with one field of its first unit, of its first combat event,
\* or its first terrain cell replaced, or one key removed or added
WithUnitField(doc, key, tok) ==
    [doc EXCEPT !.v.frames.v[1].v.unit_positions.v[1].v = (key :> tok) @@ @]

WithoutUnitField(doc, key) ==
    [doc EXCEPT !.v.frames.v[1].v.unit_positions.v[1].v =
        [k \in (DOMAIN @) \ {key} |-> @[k]]]

WithEventField(doc, key, tok) ==
    [doc EXCEPT !.v.frames.v[1].v.combat_log.v[1].v = (key :> tok) @@ @]

WithCell(doc, tok) == [doc EXCEPT !.v.terrain_map.v[1].v[1] = tok]

WithTopField(doc, key, tok) == [doc EXCEPT !.v = (key :> tok) @@ @]

WithFrameField(doc, key, tok) == [doc EXCEPT !.v.frames.v[1].v = (key :> tok) @@ @]

\* documents with one out-of-range or wrongly typed value
DefectiveDocuments ==
    { WithUnitField(BaseDocument, "health", JInt(101)),
      WithUnitField(BaseDocument, "health", JInt(0 - 1)),
      WithUnitField(BaseDocument, "range", JInt(0)),
      WithUnitField(BaseDocument, "x", JInt(0 - 1)),
      WithUnitField(BaseDocument, "side", JStr("Green")),
      WithEventField(BaseDocument, "action_type", JStr("Nuke")),
      WithUnitField(BaseDocument, "type", JInt(5)),
      WithUnitField(BaseDocument, "unit_id", JNull),
      WithUnitField(BaseDocument, "x", JStr("1")),
      WithCell(BaseDocument, JStr("1")),
      WithCell(BaseDocument, JInt(7)) }

\* documents that are incomplete, carry more than the model, were annotated
\* by hand, or are no JSON
OtherDocuments ==
    { WithoutUnitField(BaseDocument, "health"),
      WithoutUnitField(BaseDocument, "unit_id"),
      WithTopField(BaseDocument, "generator_metadata", JStr("gpt-4o")),
      WithFrameField(BaseDocument, "validation_errors", JArr(<<JStr(WaterError(UnitB))>>)),
      JGarbage }

UploadableDocuments ==
    {ScenarioJson(s) : s \in FileScenarios} \cup DefectiveDocuments \cup OtherDocuments

\* the "Load JSON Scenario" handler on the uploaded document
UploadFile(doc) ==
    /\ uploaded' = <<doc>>
    /\ IF model_validate_json(doc) # Invalid
         THEN /\ load_existing_scenario(model_validate_json(doc)[1])
              /\ load_result' = "loaded"
         ELSE /\ load_result' = "invalid"
              /\ UNCHANGED sessionVars
    /\ UNCHANGED <<saved, view, callVars, valVars>>

\* the file written by the download button is uploaded
UploadSaved == saved # <<>> /\ UploadFile(saved[1])

\* the page got as far as the export buttons: frames[current_idx] was read
\* for the display and terrain_map[0] for the editor
ExportsOffered ==
    /\ current_scenario # <<>>
    /\ current_frame_index < Len(ActiveScenario.frames)
    /\ Len(ActiveScenario.terrain_map) > 0

\* "Scenario (JSON)": the download button and its data
DownloadScenario ==
    /\ ExportsOffered
    /\ saved' = <<ScenarioJson(ActiveScenario)>>
    /\ last_op' = Op("download", <<>>)
    /\ UNCHANGED <<total_frames_generated, total_scenarios_run, current_scenario,
                   current_frame_index, set_calls, set_frames, branches, session_keys, edits,
                   uploaded, load_result, view, callVars, valVars>>

\* ------------------------------------------------- exports and analytics
View(kind, value) == [kind |-> kind, value |-> value]

\* the call ended with this exception
ViewRaised(kind, exception) == [kind |-> kind, raised |-> exception]

NoDataJournal == <<"# Commander's Journal", "", "No data available.">>

\* count_units(frame): units of side BLUE, and all the others
count_units(frame) ==
    [b |-> Cardinality({i \in 1..Len(frame.unit_positions) :
                           frame.unit_positions[i].side = BLUE}),
     r |-> Cardinality({i \in 1..Len(frame.unit_positions) :
                           frame.unit_positions[i].side # BLUE})]

\* the lines of one frame: heading, situation, one table row per unit
FrameLines(frames, i) ==
    << <<"### Frame", i>>, <<"**Situation:**", frames[i].frame_description>> >>
        \o [n \in 1..Len(frames[i].unit_positions) |->
               LET unit == frames[i].unit_positions[n]
               IN  <<"|", unit.unit_id, unit.side, unit.x, unit.y>>]

RECURSIVE AllFrameLines(_, _)
AllFrameLines(frames, i) ==
    IF i > Len(frames) THEN <<>>
    ELSE FrameLines(frames, i) \o AllFrameLines(frames, i + 1)

\* exporter.generate_markdown_report(scenario_data): the lines of the journal
generate_markdown_report(scenario_data) ==
    IF scenario_data = <<>> \/ scenario_data[1].frames = <<>> THEN NoDataJournal
    ELSE LET frames == scenario_data[1].frames
             first == count_units(frames[1])
             last == count_units(frames[Len(frames)])
         IN  << "# Commander's Journal", "", <<"**Total Frames:**", Len(frames)>> >>
                \o AllFrameLines(frames, 1)
                \o << <<"Blue Force", first.b, last.b, first.b - last.b>>,
                      <<"Red Force", first.r, last.r, first.r - last.r>> >>

\* exporter.generate_vtt_json(scenario): the map and the tokens of frame 0
generate_vtt_json(scenario_data) ==
    [width |-> IF Len(scenario_data.terrain_map) > 0
               THEN Len(scenario_data.terrain_map[1]) ELSE 0,
     height |-> Len(scenario_data.terrain_map),
     terrain_layer |-> scenario_data.terrain_map,
     tokens |-> IF scenario_data.frames = <<>> THEN <<>>
                ELSE [n \in 1..Len(scenario_data.frames[1].unit_positions) |->
                         LET unit == scenario_data.frames[1].unit_positions[n]
                         IN  [name |-> <<unit.side.value, unit.type>>, id |-> unit.unit_id,
                              x |-> unit.x, y |-> unit.y, side |-> unit.side.value,
                              hp |-> unit.health, range |-> unit.range,
                              status |-> unit.status]]]

\* analytics.calculate_force_correlation(scenario): one row per frame;
\* without rows there is no 'Frame' column and set_index raises KeyError
calculate_force_correlation(scenario_data) ==
    IF scenario_data.frames = <<>> THEN ViewRaised("force_correlation", "KeyError")
    ELSE View("force_correlation",
              [i \in 1..Len(scenario_data.frames) |->
                  [Frame |-> i,
                   BlueForce |-> count_units(scenario_data.frames[i]).b,
                   RedForce |-> count_units(scenario_data.frames[i]).r]])

\* the units of frames k.. that stand on cell (x, y)
RECURSIVE UnitsSeenOn(_, _, _, _)
UnitsSeenOn(frames, k, x, y) ==
    IF k > Len(frames) THEN 0
    ELSE Cardinality({n \in 1..Len(frames[k].unit_positions) :
                         /\ frames[k].unit_positions[n].x = x
                         /\ frames[k].unit_positions[n].y = y})
         + UnitsSeenOn(frames, k + 1, x, y)

\* analytics.calculate_heatmap(scenario): per cell, the units seen on it
calculate_heatmap(scenario_data) ==
    IF scenario_data.terrain_map = <<>> THEN <<>>
    ELSE [y \in 1..Len(scenario_data.terrain_map) |->
            [x \in 1..Len(scenario_data.terrain_map[1]) |->
                UnitsSeenOn(scenario_data.frames, 1, x - 1, y - 1)]]

\* the four calls, on what the session holds
GenerateMarkdownReport ==
    /\ view' = View("markdown", generate_markdown_report(current_scenario))
    /\ last_op' = Op("generate_markdown_report", <<>>)
    /\ UNCHANGED <<total_frames_generated, total_scenarios_run, current_scenario,
                   current_frame_index, set_calls, set_frames, branches, session_keys, edits,
                   uploaded, load_result, saved, callVars, valVars>>

GenerateVttJson ==
    /\ current_scenario # <<>>
    /\ view' = View("vtt", generate_vtt_json(ActiveScenario))
    /\ last_op' = Op("generate_vtt_json", <<>>)
    /\ UNCHANGED <<total_frames_generated, total_scenarios_run, current_scenario,
                   current_frame_index, set_calls, set_frames, branches, session_keys, edits,
                   uploaded, load_result, saved, callVars, valVars>>

CalculateForceCorrelation ==
    /\ current_scenario # <<>>
    /\ view' = calculate_force_correlation(ActiveScenario)
    /\ last_op' = Op("calculate_force_correlation", <<>>)
    /\ UNCHANGED <<total_frames_generated, total_scenarios_run, current_scenario,
                   current_frame_index, set_calls, set_frames, branches, session_keys, edits,
                   uploaded, load_result, saved, callVars, valVars>>

\* the counts added onto the terrain grid itself
CalculateHeatmap_inPlace ==
    /\ current_scenario # <<>>
    /\ view' = View("heatmap", calculate_heatmap(ActiveScenario))
    /\ current_scenario' =
          <<[ActiveScenario EXCEPT !.terrain_map = calculate_heatmap(ActiveScenario)]>>
    /\ last_op' = Op("calculate_heatmap", <<>>)
    /\ UNCHANGED <<total_frames_generated, total_scenarios_run,
                   current_frame_index, set_calls, set_frames, branches, session_keys, edits,
                   uploaded, load_result, saved, callVars, valVars>>

CalculateHeatmap ==
    /\ current_scenario # <<>>
    /\ view' = View("heatmap", calculate_heatmap(ActiveScenario))
    /\ last_op' = Op("calculate_heatmap", <<>>)
    /\ UNCHANGED <<total_frames_generated, total_scenarios_run, current_scenario,
                   current_frame_index, set_calls, set_frames, branches, session_keys, edits,
                   uploaded, load_result, saved, callVars, valVars>>

FileInit == CallIdle /\ ValIdle /\ FileIdle /\ SessionFresh

FileNext ==
    \/ \E doc \in UploadableDocuments : UploadFile(doc)
    \/ UploadSaved
    \/ DownloadScenario

SpecFile == FileInit /\ [][FileNext]_vars

\* the session gets a scenario by generation or upload, and the views are
\* computed from it
ExportNext ==
    \/ \E s \in FileScenarios : SetScenario(s)
    \/ \E s \in FileScenarios : LoadExistingScenario(s)
    \/ GenerateMarkdownReport
    \/ GenerateVttJson
    \/ CalculateForceCorrelation
    \/ CalculateHeatmap

SpecExport == FileInit /\ [][ExportNext]_vars

\* C11: the generator call of attempt k (1-based) receives the system and
\* user instruction followed, for each of the k - 1 prior attempts in order,
\* by that attempt's serialized candidate and then its feedback.
C11_FullHistoryEachAttempt ==
    (NonMockFetch /\ pc = "loop") =>
        /\ Len(messages) = 2 + 2 * attempt
        /\ messages[1].role = "system" /\ messages[2].role = "user"
        /\ \A j \in 1..attempt :
              /\ AnsweredCandidate(j)
              /\ messages[2 * j + 1] =
                    Message("assistant", model_dump_json(validate_scenario(CandidateAt(j))))
              /\ messages[2 * j + 2] =
                    Message("user", error_feedback(all_errors(validate_scenario(CandidateAt(j)))))


\* ------------------------------------------- properties of validate_scenario
\* the scenario object the validator was called on
Validated == val_runs >= 1 /\ val_status = "ok"

ValFrames == val_scenario[1].frames

ValTerrain == val_scenario[1].terrain_map

ErrorsOf(k) == ValFrames[k].validation_errors

UnitsOf(k) == ValFrames[k].unit_positions

\* the positions of frame k's list that hold a unit with this id
Holders(k, id) == {j \in 1..Len(UnitsOf(k)) : UnitsOf(k)[j].unit_id = id}

UniqueIds(k) == \A id \in ValIds : Cardinality(Holders(k, id)) <= 1

\* the unit of frame k with this id, where there is exactly one
TheUnit(k, id) == UnitsOf(k)[CHOOSE j \in Holders(k, id) : TRUE]

\* the entries of frame k's list that are a "moved too fast" error naming id
MovedEntries(k, id) ==
    {j \in 1..Len(ErrorsOf(k)) :
        ErrorsOf(k)[j][1] = "moved too fast" /\ ErrorsOf(k)[j][2] = id}

\* the entries of frame k's list of this kind for this id at this place
PlaceEntries(k, kind, u) ==
    {j \in 1..Len(ErrorsOf(k)) : ErrorsOf(k)[j] = <<kind, u.unit_id, u.x, u.y>>}

\* the units of frame k's list equal to u
Occurrences(k, u) == {j \in 1..Len(UnitsOf(k)) : UnitsOf(k)[j] = u}

\* a position inside the grid, read off the grid itself
OnGrid(u) ==
    /\ ValTerrain # <<>>
    /\ u.y >= 0 /\ u.y < Len(ValTerrain)
    /\ u.x >= 0 /\ u.x < Len(ValTerrain[1])

CellCode(u) == ValTerrain[u.y + 1][u.x + 1]

\* strictly more than 3.0 grid units apart
FartherThanThree(u, v) ==
    (u.x - v.x) * (u.x - v.x) + (u.y - v.y) * (u.y - v.y) > 9

\* the frame has a violation of one of the three rules
FrameViolates(k) ==
    \/ \E j \in 1..Len(UnitsOf(k)) :
          ~OnGrid(UnitsOf(k)[j]) \/ CellCode(UnitsOf(k)[j]) = 1
    \/ /\ k > 1
       /\ \E j \in 1..Len(UnitsOf(k)), i \in 1..Len(UnitsOf(k - 1)) :
             /\ UnitsOf(k)[j].unit_id = UnitsOf(k - 1)[i].unit_id
             /\ FartherThanThree(UnitsOf(k)[j], UnitsOf(k - 1)[i])

StaleEntry == <<"hand-authored">>

NoStaleEntries ==
    \A k \in 1..Len(ValFrames) :
        /\ \A j \in 1..Len(ErrorsOf(k)) : ErrorsOf(k)[j] # StaleEntry
        /\ ~FrameViolates(k) => ErrorsOf(k) = <<>>

\* C12: after a call every frame's list holds only what that call computed
\* (no entry from before; empty on a frame without violations), and a second
\* call in a row on the same object leaves every list identical.
C12_ValidateIdempotent ==
    /\ [](Validated => NoStaleEntries)
    /\ [][(val_runs >= 1 /\ val_status = "ok" /\ val_runs' = val_runs + 1)
             => val_scenario' = val_scenario]_vars

\* a second call has run on a scenario that has both a violating and a
\* clean frame
C12_Witness ==
    /\ val_runs = 2 /\ val_status = "ok"
    /\ \E k \in 1..Len(ValFrames) : FrameViolates(k) /\ ErrorsOf(k) # <<>>
    /\ \E k \in 1..Len(ValFrames) : ~FrameViolates(k) /\ ErrorsOf(k) = <<>>

\* C13: with ids unique within a frame, frame k >= 1 gets exactly one "moved
\* too fast" error for a unit that is in frames k-1 and k more than 3.0
\* apart, and none for any other unit; frame 0 gets none.
C13_MovedTooFastExactly ==
    Validated =>
        \A k \in 1..Len(ValFrames) : \A id \in ValIds :
            (UniqueIds(k) /\ (k > 1 => UniqueIds(k - 1))) =>
                Cardinality(MovedEntries(k, id)) =
                    IF /\ k > 1
                       /\ Holders(k, id) # {}
                       /\ Holders(k - 1, id) # {}
                       /\ FartherThanThree(TheUnit(k, id), TheUnit(k - 1, id))
                    THEN 1 ELSE 0

\* a unit gets the error in one frame, and the same scenario has a unit that
\* moved exactly 3.0 without one
C13_Witness ==
    /\ Validated
    /\ Len(ValFrames) = 3
    /\ \E id \in ValIds :
          /\ UniqueIds(1) /\ UniqueIds(2) /\ UniqueIds(3)
          /\ Holders(1, id) # {} /\ Holders(2, id) # {} /\ Holders(3, id) # {}
          /\ TheUnit(1, id).x = 3 /\ TheUnit(1, id).y = 0
          /\ TheUnit(2, id).x = 0 /\ TheUnit(2, id).y = 0
          /\ TheUnit(3, id).x = 3 /\ TheUnit(3, id).y = 1
          /\ MovedEntries(2, id) = {}
          /\ Cardinality(MovedEntries(3, id)) = 1

\* C14: in every frame, a unit inside the grid on a Water cell (code 1) gets
\* its "is in Water at (x, y)" error whatever else the frame reports, and a
\* unit on an Open, Urban or Forest cell gets none.
C14_WaterErrorIffWaterCell ==
    Validated =>
        \A k \in 1..Len(ValFrames) : \A j \in 1..Len(UnitsOf(k)) :
            LET u == UnitsOf(k)[j] IN
            OnGrid(u) =>
                /\ CellCode(u) = 1 =>
                      PlaceEntries(k, "is in Water at", u) # {}
                /\ CellCode(u) \in {0, 2, 3} =>
                      PlaceEntries(k, "is in Water at", u) = {}

\* a unit on Water in a later frame that also moved too fast, in a scenario
\* that has a unit on an Urban cell and one on a Forest cell
C14_Witness ==
    /\ Validated
    /\ \E k \in 2..Len(ValFrames) : \E j \in 1..Len(UnitsOf(k)) :
          /\ OnGrid(UnitsOf(k)[j]) /\ CellCode(UnitsOf(k)[j]) = 1
          /\ PlaceEntries(k, "is in Water at", UnitsOf(k)[j]) # {}
          /\ MovedEntries(k, UnitsOf(k)[j].unit_id) # {}
    /\ \E k \in 1..Len(ValFrames) : \E j \in 1..Len(UnitsOf(k)) :
          OnGrid(UnitsOf(k)[j]) /\ CellCode(UnitsOf(k)[j]) = 2
    /\ \E k \in 1..Len(ValFrames) : \E j \in 1..Len(UnitsOf(k)) :
          OnGrid(UnitsOf(k)[j]) /\ CellCode(UnitsOf(k)[j]) = 3

\* C15: a unit outside the grid gets one "out of bounds" error in that frame
\* and no Water error; its movement is still checked, and the other units of
\* the frame are still checked.
C15_OutOfBoundsOnce ==
    Validated =>
        \A k \in 1..Len(ValFrames) : \A j \in 1..Len(UnitsOf(k)) :
            LET u == UnitsOf(k)[j] IN
            ~OnGrid(u) =>
                /\ Cardinality(PlaceEntries(k, "out of bounds", u)) =
                       Cardinality(Occurrences(k, u))
                /\ PlaceEntries(k, "is in Water at", u) = {}
                /\ ( /\ k > 1 /\ UniqueIds(k) /\ UniqueIds(k - 1)
                     /\ Holders(k - 1, u.unit_id) # {}
                     /\ FartherThanThree(u, TheUnit(k - 1, u.unit_id)) )
                      => Cardinality(MovedEntries(k, u.unit_id)) = 1

\* a frame whose first unit is outside the grid and moved too fast, followed
\* by a second unit that is outside the grid too
C15_Witness ==
    /\ Validated
    /\ ValTerrain # <<>>
    /\ Len(ValFrames) = 2
    /\ Len(UnitsOf(2)) = 2
    /\ ~OnGrid(UnitsOf(2)[1]) /\ ~OnGrid(UnitsOf(2)[2])
    /\ UnitsOf(2)[1].unit_id # UnitsOf(2)[2].unit_id
    /\ Cardinality(MovedEntries(2, UnitsOf(2)[1].unit_id)) = 1
    /\ Cardinality(PlaceEntries(2, "out of bounds", UnitsOf(2)[2])) = 1

\* C16: the call never raises, whatever the grid and whether or not a unit
\* id was in the previous frame; on an empty terrain grid it returns and every
\* unit of every frame gets an "out of bounds" error.
C16_EmptyTerrainAllOutOfBounds ==
    val_runs >= 1 =>
        /\ val_status = "ok"
        /\ ValTerrain = <<>> =>
              \A k \in 1..Len(ValFrames) : \A j \in 1..Len(UnitsOf(k)) :
                  Cardinality(PlaceEntries(k, "out of bounds", UnitsOf(k)[j])) =
                      Cardinality(Occurrences(k, UnitsOf(k)[j]))

\* the call has returned on an empty grid with units in two frames
C16_Witness ==
    /\ Validated
    /\ ValTerrain = <<>>
    /\ Len(ValFrames) >= 2
    /\ UnitsOf(1) # <<>> /\ UnitsOf(2) # <<>>
    /\ UnitsOf(1)[1].unit_id # UnitsOf(2)[1].unit_id
    /\ Len(ErrorsOf(1)) >= Len(UnitsOf(1))


\* ------------------------------------------------- properties of the session
Active == current_scenario # <<>>

FrameCount == Len(ActiveScenario.frames)

\* C17: after set_scenario and load_existing_scenario calls in any order,
\* total_scenarios_run is the number of set_scenario calls and
\* total_frames_generated the sum of the frame counts passed to set_scenario;
\* load_existing_scenario adds to neither.
C17_CountersFollowSets ==
    /\ total_scenarios_run = set_calls
    /\ branches = 0 => total_frames_generated = set_frames

\* two scenarios of 1 and 3 frames were set and a third was loaded afterwards
C17_Witness ==
    /\ last_op.name = "load_existing_scenario"
    /\ Len(last_op.frames) = 3
    /\ branches = 0
    /\ set_calls = 2 /\ set_frames = 4
    /\ total_scenarios_run = 2 /\ total_frames_generated = 4

\* C18: once a scenario was made active by set_scenario or
\* load_existing_scenario, the cursor is within [0, frame_count - 1] after
\* any sequence of next_frame and prev_frame calls.
C18_CursorWithinFrames ==
    Active => 0 <= current_frame_index /\ current_frame_index <= FrameCount - 1

\* C19: next_frame at the last frame, prev_frame at 0, and either without an
\* active scenario change nothing; away from these boundaries the call moves
\* the cursor by exactly one; scenario and counters are never changed.
C19_NavigationSteps ==
    [][ /\ last_op'.name \in {"next_frame", "prev_frame"} =>
              /\ current_scenario' = current_scenario
              /\ total_scenarios_run' = total_scenarios_run
              /\ total_frames_generated' = total_frames_generated
        /\ last_op'.name = "next_frame" =>
              /\ (~Active \/ current_frame_index = FrameCount - 1) =>
                    current_frame_index' = current_frame_index
              /\ (Active /\ 0 <= current_frame_index
                         /\ current_frame_index < FrameCount - 1) =>
                    current_frame_index' = current_frame_index + 1
        /\ last_op'.name = "prev_frame" =>
              /\ (~Active \/ current_frame_index = 0) =>
                    current_frame_index' = current_frame_index
              /\ (Active /\ 0 < current_frame_index
                         /\ current_frame_index <= FrameCount - 1) =>
                    current_frame_index' = current_frame_index - 1 ]_vars

\* next_frame has been called on a three-frame scenario and the cursor is on
\* the last frame
C19_Witness ==
    /\ last_op.name = "next_frame"
    /\ Active
    /\ FrameCount = 3
    /\ current_frame_index = 2

\* C20: a branch from frame index i with n returned frames leaves i + 1 + n
\* frames: the original frames 0..i in order, then the new ones in returned
\* order, on the same terrain, and the merged scenario is validated as a
\* whole, so the first new frame is movement-checked against frame i.
C20_BranchMerges ==
    [][ last_op'.name = "branch" =>
          LET i      == current_frame_index
              old    == current_scenario[1]
              merged == current_scenario'[1]
              new    == last_op'.frames
          IN  /\ Len(merged.frames) = i + 1 + Len(new)
              /\ \A k \in 1..(i + 1) :
                    /\ merged.frames[k].unit_positions = old.frames[k].unit_positions
                    /\ merged.frames[k].frame_description = old.frames[k].frame_description
              /\ \A k \in 1..Len(new) :
                    /\ merged.frames[i + 1 + k].unit_positions = new[k].unit_positions
                    /\ merged.frames[i + 1 + k].frame_description = new[k].frame_description
              /\ merged.terrain_map = old.terrain_map
              /\ merged = validate_scenario(merged)
              /\ \A k \in 1..Len(merged.frames) : \A j \in 1..Len(merged.frames[k].validation_errors) :
                    merged.frames[k].validation_errors[j] # StaleEntry
              /\ ( /\ Len(new) > 0
                   /\ old.frames[i + 1].unit_positions = <<U1(0, 0)>>
                   /\ new[1].unit_positions = <<U1(3, 1)>> )
                    => \E j \in 1..Len(merged.frames[i + 2].validation_errors) :
                          /\ merged.frames[i + 2].validation_errors[j][1] = "moved too fast"
                          /\ merged.frames[i + 2].validation_errors[j][2] = <<"U", 1>> ]_vars

\* a branch from frame 0 of the three-frame scenario has returned two frames:
\* the old frames 1 and 2 are gone and the first new frame carries the
\* movement error against frame 0
C20_Witness ==
    /\ last_op.name = "branch"
    /\ Len(last_op.frames) = 2
    /\ current_frame_index = 0
    /\ FrameCount = 3
    /\ ActiveScenario.frames[1].unit_positions = <<U1(0, 0)>>
    /\ ActiveScenario.frames[2].unit_positions = <<U1(3, 1)>>
    /\ \E j \in 1..Len(ActiveScenario.frames[2].validation_errors) :
          ActiveScenario.frames[2].validation_errors[j][1] = "moved too fast"

\* ------------------------------------------- more properties of the two calls
\* C21: a step of continue_scenario leaves the input scenario (frames,
\* terrain, validation_errors) as it was, whether the call returns or raises,
\* and what it returns is the generator's frames as parsed, not validated.
C21_ContinueReturnsOnlyNewFrames ==
    [][ (op = "continue" /\ pc = "loop") =>
          /\ args'.current_scenario = args.current_scenario
          /\ pc' \in {"returned", "raised"}
          /\ pc' = "returned" =>
                /\ result'.status = "returned"
                /\ result'.value[1] = gen_log'[1].parsed[1] ]_vars

\* the call has returned three frames, two of them with units outside the
\* grid, that carry no validation error; the input still has its two frames
C21_Witness ==
    /\ op = "continue" /\ pc = "returned"
    /\ Len(result.value[1]) = 3
    /\ result.value[1][2] = MassFrame
    /\ \A k \in 1..3 : result.value[1][k].validation_errors = <<>>
    /\ Len(args.current_scenario[1].frames) = 2
    /\ args.current_scenario[1] \in ContinuableScenarios

\* ------------------------------------------------- properties of the files
\* C22: the document written for a scenario loads back as an equal scenario
\* (terrain, frames, units, combat log, validation_errors), and a document
\* the program wrote, loaded and written again, is the same document.
C22_SaveLoadRoundTrip ==
    /\ last_op.name = "download" =>
          model_validate_json(saved[1]) = Valid(ActiveScenario)
    /\ (last_op.name = "load_existing_scenario" /\ saved # <<>> /\ uploaded = saved) =>
          /\ load_result = "loaded"
          /\ ScenarioJson(ActiveScenario) = saved[1]

\* a scenario with a validation error and an event with a target was
\* written, and the written document was uploaded and is the active scenario
C22_Witness ==
    /\ last_op.name = "load_existing_scenario"
    /\ saved # <<>> /\ uploaded = saved /\ load_result = "loaded"
    /\ ActiveScenario.frames[1].validation_errors # <<>>
    /\ ActiveScenario.frames[1].combat_log[1].target_unit_id # <<>>
    /\ ActiveScenario.frames[1].unit_positions[2].side = RED

\* C23: a document with a health outside [0,100], a range below 1, a negative
\* coordinate, an unknown side or action_type, a value of the wrong type or a
\* terrain code outside 0..3 is rejected, and a rejected load leaves the
\* active scenario, the cursor and the counters as they were.
C23_LoadIsStrict ==
    /\ [](\A doc \in DefectiveDocuments :
            uploaded = <<doc>> => load_result = "invalid")
    /\ [][load_result' = "invalid" =>
             /\ current_scenario' = current_scenario
             /\ current_frame_index' = current_frame_index
             /\ total_scenarios_run' = total_scenarios_run
             /\ total_frames_generated' = total_frames_generated]_vars

ExportNames ==
    {"generate_markdown_report", "generate_vtt_json", "calculate_force_correlation",
     "calculate_heatmap"}

\* C24: generate_markdown_report, generate_vtt_json,
\* calculate_force_correlation and calculate_heatmap leave the scenario
\* (terrain, frames, units, validation_errors) as it was, and
\* generate_markdown_report gives the 'No data available' journal for None
\* and for a scenario without frames.
C24_ExportsReadOnly ==
    [][ last_op'.name \in ExportNames =>
          /\ current_scenario' = current_scenario
          /\ ( /\ last_op'.name = "generate_markdown_report"
               /\ (current_scenario = <<>> \/ current_scenario[1].frames = <<>>) )
                => view' = View("markdown", NoDataJournal) ]_vars

\* the heatmap of the two-frame scenario was computed: unit A-1 was seen
\* twice on (0,0), and the scenario still has its terrain
C24_Witness ==
    /\ last_op.name = "calculate_heatmap"
    /\ current_scenario # <<>>
    /\ Len(ActiveScenario.frames) = 2
    /\ ActiveScenario.terrain_map = FileGrid
    /\ view.value[1][1] = 2

\* C25: a non-mock fetch_scenario that returns normally returns the
\* candidate of its most recent generator invocation, carrying exactly the
\* validation_errors validate_scenario computes for it; when the most
\* recent invocation raised, the call does not return.
C25_ReturnsLatestCandidate ==
    (NonMockFetch /\ gen_log # <<>>) =>
        /\ pc = "returned" =>
              /\ AnsweredCandidate(Len(gen_log))
              /\ result = Returned(validate_scenario(CandidateAt(Len(gen_log))))
        /\ AnsweredFailure(Len(gen_log)) => pc # "returned"

\* a candidate with errors, then a swallowed exception, then another
\* candidate, which was returned
C25_Witness ==
    /\ NonMockFetch /\ pc = "returned" /\ Len(gen_log) = 3
    /\ AnsweredCandidate(1) /\ HasErrors(CandidateAt(1))
    /\ AnsweredFailure(2)
    /\ AnsweredCandidate(3) /\ CandidateAt(3) # CandidateAt(1)
    /\ result.value[1].frames # validate_scenario(CandidateAt(1)).frames

\* ------------------------------------------- more properties of the session
\* C26: a branch from frame index i whose continuation call fails leaves the
\* active scenario with exactly the frames 0..i as they were (their
\* validation_errors included: nothing is validated again) on the same
\* terrain, the cursor at i and both counters as they were.
C26_FailedBranchKeepsCut ==
    [][ last_op'.name = "branch failed" =>
          LET i == current_frame_index
          IN  /\ current_scenario'[1].frames = Take(ActiveScenario.frames, i + 1)
              /\ Len(current_scenario'[1].frames) = i + 1
              /\ current_scenario'[1].terrain_map = ActiveScenario.terrain_map
              /\ current_frame_index' = i
              /\ total_frames_generated' = total_frames_generated
              /\ total_scenarios_run' = total_scenarios_run ]_vars

\* the loaded three-frame scenario lost its frames 1 and 2 in a failed
\* branch from frame 0, whose hand-authored annotation is still there
C26_Witness ==
    /\ last_op.name = "branch failed"
    /\ current_frame_index = 0
    /\ FrameCount = 1
    /\ ActiveScenario.frames[1].unit_positions = <<U1(0, 0)>>
    /\ ActiveScenario.frames[1].validation_errors = << <<"hand-authored">> >>
    /\ ActiveScenario # validate_scenario(ActiveScenario)

OtherOps ==
    {"initialize_state", "load_existing_scenario", "next_frame", "prev_frame",
     "slider", "start", "end", "set_terrain", "place_unit", "remove_unit",
     "branch failed"}

\* C28: no operation lowers a counter; total_scenarios_run changes only in
\* set_scenario; total_frames_generated changes only in set_scenario and in a
\* successful branch, which adds the number of new frames and leaves
\* total_scenarios_run alone; load, navigation, edits, failed branches and
\* initialize_state change neither.
C28_CountersMonotone ==
    [][ /\ total_frames_generated' >= total_frames_generated
        /\ total_scenarios_run' >= total_scenarios_run
        /\ total_scenarios_run' # total_scenarios_run => last_op'.name = "set_scenario"
        /\ total_frames_generated' # total_frames_generated
              => last_op'.name \in {"set_scenario", "branch"}
        /\ last_op'.name = "branch" =>
              /\ total_frames_generated' = total_frames_generated + Len(last_op'.frames)
              /\ total_scenarios_run' = total_scenarios_run
        /\ last_op'.name \in OtherOps =>
              /\ total_frames_generated' = total_frames_generated
              /\ total_scenarios_run' = total_scenarios_run ]_vars

\* after one set_scenario of three frames, an edit and a branch from frame 1
\* that returned two frames: five frames counted, one scenario run
C28_Witness ==
    /\ last_op.name = "branch"
    /\ Len(last_op.frames) = 2
    /\ current_frame_index = 1
    /\ edits > 0
    /\ set_calls = 1 /\ set_frames = 3
    /\ total_frames_generated = 5
    /\ total_scenarios_run = 1

\* C29: initialize_state on a fresh session sets both counters to 0, the
\* active scenario to none and the cursor to 0, and a later call, after any
\* session operations, changes no counter, scenario, cursor or key.
C29_InitializeFillsMissing ==
    /\ initialize_state(EmptySession) =
          [total_frames_generated |-> 0, total_scenarios_run |-> 0,
           current_scenario |-> <<>>, current_frame_index |-> 0]
    /\ total_frames_generated = 0 /\ total_scenarios_run = 0
    /\ current_scenario = <<>> /\ current_frame_index = 0
    /\ [][ last_op'.name = "initialize_state" =>
             /\ total_frames_generated' = total_frames_generated
             /\ total_scenarios_run' = total_scenarios_run
             /\ current_scenario' = current_scenario
             /\ current_frame_index' = current_frame_index
             /\ session_keys' = session_keys ]_vars

\* initialize_state ran again on a session with a scenario of several frames,
\* the cursor off 0 and counters off 0, and all of that is still there
C29_Witness ==
    /\ last_op.name = "initialize_state"
    /\ current_scenario # <<>>
    /\ FrameCount = 3
    /\ current_frame_index = 2
    /\ total_scenarios_run = 1
    /\ total_frames_generated = 3

\* ------------------------------------ more properties of validate_scenario
\* the last unit of frame k's list with this id
LastUnit(k, id) ==
    UnitsOf(k)[CHOOSE j \in Holders(k, id) : \A i \in Holders(k, id) : i <= j]

\* frame k and the frame before it both hold the id, and the last units
\* with it are more than 3.0 apart
LastUnitsTooFar(k, id) ==
    /\ k > 1
    /\ Holders(k, id) # {} /\ Holders(k - 1, id) # {}
    /\ FartherThanThree(LastUnit(k, id), LastUnit(k - 1, id))

\* C30: with several units of one id in a frame, every occurrence gets its
\* bounds and Water check, and the movement check is made once per id, on
\* the last occurrence of the frame and the last occurrence of the frame
\* before it; a frame has at most one "moved too fast" entry per id.
C30_DuplicateIdsLastWins ==
    Validated =>
        \A k \in 1..Len(ValFrames) :
            /\ \A j \in 1..Len(UnitsOf(k)) :
                  LET u == UnitsOf(k)[j]
                  IN  /\ Cardinality(PlaceEntries(k, "out of bounds", u)) =
                            IF OnGrid(u) THEN 0 ELSE Cardinality(Occurrences(k, u))
                      /\ Cardinality(PlaceEntries(k, "is in Water at", u)) =
                            IF OnGrid(u) /\ CellCode(u) = 1
                            THEN Cardinality(Occurrences(k, u)) ELSE 0
            /\ \A id \in ValIds :
                  /\ Cardinality(MovedEntries(k, id)) <= 1
                  /\ Cardinality(MovedEntries(k, id)) =
                        IF LastUnitsTooFar(k, id) THEN 1 ELSE 0
                  /\ \A j \in MovedEntries(k, id) :
                        ErrorsOf(k)[j][3] = Hundredths(LastUnit(k, id), LastUnit(k - 1, id))

\* frame 1 holds U1 at (3,0) and then at (0,0); frame 2 holds U1 at (3,1):
\* one movement error against (0,0), 3.16 tiles, and the Water error
C30_Witness ==
    /\ Validated
    /\ Len(ValFrames) = 2
    /\ ValTerrain # <<>> /\ Len(ValTerrain[1]) = 4
    /\ UnitsOf(1) = <<U1(3, 0), U1(0, 0)>>
    /\ UnitsOf(2) = <<U1(3, 1)>>
    /\ Cardinality(MovedEntries(2, <<"U", 1>>)) = 1
    /\ \A j \in MovedEntries(2, <<"U", 1>>) : ErrorsOf(2)[j][3] = 316
    /\ Cardinality(PlaceEntries(2, "is in Water at", U1(3, 1))) = 1
====
